---- MODULE Spec2Model ----
(***************************************************************************)
(* A model of the Postgres metrics collector                               *)
(*   src/server/driver/collector/postgres_collector.py                     *)
(* and of the driver pipeline that calls it                                *)
(*   src/server/driver/database.py                                         *)
(*                                                                         *)
(* Three state machines share the module:                                  *)
(*   Spec / SpecOverlap  the database-level collection cycles              *)
(*                       (collect_metrics_influx, collect_metrics_pg,      *)
(*                       collect_metrics), one statement per step, against *)
(*                       one server; SpecOverlap runs two collectors.      *)
(*   SpecTable           the table-level cycle of database.py              *)
(*   SpecBloat           the bloat-ratio arithmetic, applied to inputs     *)
(*                       drawn from bounded sets                           *)
(***************************************************************************)
EXTENDS Integers, Sequences, FiniteSets, TLC

\* ------------------------------------------------------------ bounds
\* cycles a collector runs in one behaviour
MaxCycles == 2
\* server-activity events in one behaviour
MaxActivity == 2
\* statement failures the environment injects in one behaviour
MaxFaults == 2
\* cycles each of two overlapping collectors runs
MaxOverlapCycles == 1

\* ------------------------------------------------------------ helpers
Last(s) == s[Len(s)]

Range(s) == {s[i] : i \in 1..Len(s)}

Count(s, x) == Cardinality({i \in 1..Len(s) : s[i] = x})

\* ------------------------------------------------------------ CatalogQueryLayer
\* What the connection does with one statement: the statement runs, or
\* conn.cursor(), cursor.execute() or cursor.fetchall() raises.
Outcomes == {"ok", "cursor", "execute", "fetchall"}

\* The driver error raised at each point of failure.
UnderlyingError(outcome) ==
    CASE outcome = "cursor" -> "InterfaceError"
      [] outcome = "execute" -> "DatabaseError"
      [] outcome = "fetchall" -> "ProgrammingError"
      [] OTHER -> "none"

NoExc == [type |-> "none", msg |-> <<>>, cause |-> "none"]

\* raise PostgresCollectorException(msg, ex) from ex, msg = f"Failed to execute sql {sql}"
PostgresCollectorException(sql, ex) ==
    [type |-> "PostgresCollectorException",
     msg |-> <<"Failed to execute sql ", sql>>,
     cause |-> ex]

\* An error of the collector's own Python code (assert, dict lookup, int(None)).
PythonError(type) == [type |-> type, msg |-> <<>>, cause |-> "none"]

\* _cmd with a fetch failure that hands the rows read so far to the caller
\* and a message without the statement.
_cmd_partial(sql, outcome, rows, meta) ==
    IF outcome = "ok"
    THEN [raised |-> FALSE, rows |-> rows, meta |-> meta, exc |-> NoExc]
    ELSE [raised |-> TRUE,
          rows |-> IF outcome = "fetchall" THEN rows ELSE <<>>,
          meta |-> <<>>,
          exc |-> [type |-> "PostgresCollectorException",
                   msg |-> <<"Failed to execute sql ">>,
                   cause |-> UnderlyingError(outcome)]]

\* _cmd(sql): the whole body is inside the try, so every failure becomes one
\* PostgresCollectorException and nothing is returned.
_cmd(sql, outcome, rows, meta) ==
    IF outcome = "ok"
    THEN [raised |-> FALSE, rows |-> rows, meta |-> meta, exc |-> NoExc]
    ELSE [raised |-> TRUE, rows |-> <<>>, meta |-> <<>>,
          exc |-> PostgresCollectorException(sql, UnderlyingError(outcome))]

\* _cmd_wo_fetch(sql): cursor() and execute() only; nothing is fetched, so a
\* cursor that could not be fetched from is no failure here.
_cmd_wo_fetch(sql, outcome) ==
    IF outcome \in {"ok", "fetchall"}
    THEN [raised |-> FALSE, rows |-> <<>>, meta |-> <<>>, exc |-> NoExc]
    ELSE [raised |-> TRUE, rows |-> <<>>, meta |-> <<>>,
          exc |-> PostgresCollectorException(sql, UnderlyingError(outcome))]

\* A cell of a fetched row: NULL (Python's None) or a value.
NULL == [null |-> TRUE, val |-> 0]

Cell(v) == [null |-> FALSE, val |-> v]

\* _get_metrics with the test written "if val:", which also drops a 0
_get_metrics_truthy(ret, col) ==
    [i \in 1..Len(ret) |->
        [c \in {col[k] : k \in {j \in 1..Len(ret[i]) : ~ret[i][j].null /\ ret[i][j].val # 0}} |->
            ret[i][CHOOSE k \in 1..Len(ret[i]) :
                      /\ col[k] = c /\ ~ret[i][k].null /\ ret[i][k].val # 0
                      /\ \A j \in (k + 1)..Len(ret[i]) :
                            ~(col[j] = c /\ ~ret[i][j].null /\ ret[i][j].val # 0)].val]]

\* _get_metrics after ret, col = self._cmd(query): one dict per row, row[col[idx]] = val
\* for every val that is not None, a later column of the same name overwriting
\* an earlier one. A dict is a function from its keys. The values of the model
\* are integers, which the conversions of datetime, Decimal and str leave alone.
_get_metrics(ret, col) ==
    [i \in 1..Len(ret) |->
        [c \in {col[k] : k \in {j \in 1..Len(ret[i]) : ~ret[i][j].null}} |->
            ret[i][CHOOSE k \in 1..Len(ret[i]) :
                      /\ col[k] = c /\ ~ret[i][k].null
                      /\ \A j \in (k + 1)..Len(ret[i]) : ~(col[j] = c /\ ~ret[i][j].null)].val]]

\* ------------------------------------------------------------ statements
BGWRITER_SQL == "SELECT * FROM pg_stat_bgwriter;"
DATABASE_SQL == "SELECT * FROM pg_stat_database;"
CONFLICTS_SQL == "SELECT * FROM pg_stat_database_conflicts;"
TABLE_STAT == "SELECT sum(seq_scan) ... FROM pg_stat_user_tables;"
TABLE_STATIO == "SELECT sum(heap_blks_read) ... FROM pg_statio_user_tables;"
INDEX_STAT == "SELECT sum(idx_scan) ... FROM pg_stat_user_indexes;"
INDEX_STATIO == "SELECT sum(idx_blks_read) ... FROM pg_statio_user_indexes;"
OLDEST_BACKEND_SQL == "select ... as oldest_backend_time_sec from pg_stat_activity;"
LONGEST_QUERY_SQL == "select ... as longest_query_time_sec from pg_stat_activity where state = 'active';"
LONGEST_XACT_SQL == "select ... as longest_transaction_time_sec from pg_stat_activity where state = 'active';"
NUM_SESSIONS_SQL == "SELECT count(*) as num_sessions FROM pg_stat_activity WHERE state = 'active';"
NUM_WAIT_SQL == "SELECT count(*) as num_wait_sessions FROM pg_stat_activity WHERE wait_event_type is not null;"
STATE_COUNT_SQL == "select state, count(*) from pg_stat_activity group by state having state is not null;"
WAIT_COUNT_SQL == "select wait_event_type, count(*) from pg_stat_activity group by wait_event_type having wait_event_type is not null;"
check_module_sql == "SELECT count(*) FROM pg_extension where extname='pg_stat_statements';"
load_module_sql == "CREATE EXTENSION pg_stat_statements;"
PG_STAT_STATEMENTS_EDA_SQL == "SELECT queryid, query, calls, ... FROM pg_stat_statements;"
STATEMENTS_RESET_SQL == "select pg_stat_statements_reset(0);"
TPS_SQL == "SELECT total_calls / total_exec_time AS tps FROM (... FROM pg_stat_statements) AS subquery;"
LATENCY_SQL == "SELECT percentile_cont(0.95) ... AS latency_95th_percentile FROM pg_stat_statements;"
RESET_SQL == "select pg_stat_reset();"

\* The statements that read the relation the statistics extension creates.
ReadsStatements(sql) == sql \in {PG_STAT_STATEMENTS_EDA_SQL, TPS_SQL, LATENCY_SQL}

\* ------------------------------------------------------------ class tables
PG_STAT_VIEWS_LOCAL ==
    [database |-> <<"pg_stat_database", "pg_stat_database_conflicts">>,
     table |-> <<"pg_stat_user_tables", "pg_statio_user_tables">>,
     index |-> <<"pg_stat_user_indexes", "pg_statio_user_indexes">>]

PG_STAT_VIEWS_LOCAL_RAW ==
    [database |-> <<"pg_stat_database", "pg_stat_database_conflicts">>]

\* The two database entries are commented out in the source.
PG_STAT_LOCAL_QUERY ==
    [pg_stat_user_tables |-> TABLE_STAT,
     pg_statio_user_tables |-> TABLE_STATIO,
     pg_stat_user_indexes |-> INDEX_STAT,
     pg_statio_user_indexes |-> INDEX_STATIO]

\* __init__: version_float >= 9.4 adds pg_stat_archiver. A version is <<major, minor>>.
Versions == {<<9, 3>>, <<13, 0>>}

AtLeast(version, major, minor) ==
    version[1] > major \/ (version[1] = major /\ version[2] >= minor)

PG_STAT_VIEWS(version) ==
    IF AtLeast(version, 9, 4)
    THEN <<"pg_stat_archiver", "pg_stat_bgwriter">>
    ELSE <<"pg_stat_bgwriter">>

\* ------------------------------------------------------------ the cycles as programs
\* One entry per statement the cycle issues, in source order:
\*   kind  how the result is used (see the step actions)
\*   sql   the statement, or for kind "local_query" the view looked up
\*   emit  the record appended to the output once the statement is done
Stmt(kind, sql, emit) == [kind |-> kind, sql |-> sql, emit |-> emit]

\* the five scalar queries of the sessions record and the two group counts
ActivityProgram(sessions) ==
    << Stmt("scalar", OLDEST_BACKEND_SQL, ""),
       Stmt("scalar", LONGEST_QUERY_SQL, ""),
       Stmt("scalar", LONGEST_XACT_SQL, ""),
       Stmt("scalar", NUM_SESSIONS_SQL, ""),
       Stmt("scalar", NUM_WAIT_SQL, sessions),
       Stmt("read", STATE_COUNT_SQL, "active_sessions"),
       Stmt("read", WAIT_COUNT_SQL, "waiting_sessions") >>

\* the statistics block with the accumulator reset in front of the read
StatStatementsProgramResetFirst ==
    << Stmt("check_module", check_module_sql, ""),
       Stmt("load_module", load_module_sql, ""),
       Stmt("reset_statements", STATEMENTS_RESET_SQL, ""),
       Stmt("read_statements", PG_STAT_STATEMENTS_EDA_SQL, "") >>

\* _get_stat_statements with _load_stat_statements inlined
StatStatementsProgram ==
    << Stmt("check_module", check_module_sql, ""),
       Stmt("load_module", load_module_sql, ""),
       Stmt("read_statements", PG_STAT_STATEMENTS_EDA_SQL, ""),
       Stmt("reset_statements", STATEMENTS_RESET_SQL, "") >>

\* what collect_metrics_influx and collect_metrics_pg share up to the activity block
ViewsProgram ==
    << Stmt("global", BGWRITER_SQL, "bgwriter"),
       Stmt("read", DATABASE_SQL, "database_statistics"),
       Stmt("read", CONFLICTS_SQL, "conflicts"),
       Stmt("read", TABLE_STAT, ""),
       Stmt("read", INDEX_STAT, "access"),
       Stmt("read", TABLE_STATIO, ""),
       Stmt("read", INDEX_STATIO, "io") >>

collect_metrics_influx ==
    ViewsProgram \o ActivityProgram("sessions") \o StatStatementsProgram
    \o << Stmt("reset", RESET_SQL, "") >>

collect_metrics_pg ==
    ViewsProgram \o ActivityProgram("sessions") \o StatStatementsProgram
    \o << Stmt("read", TPS_SQL, ""),
          Stmt("read", LATENCY_SQL, "performance"),
          Stmt("reset", RESET_SQL, "") >>

\* _aggregated_local_stats: every view of the categories other than activity
_aggregated_local_stats ==
    [i \in 1..6 |->
        LET category == <<"database", "table", "index">>[((i - 1) \div 2) + 1]
            view == PG_STAT_VIEWS_LOCAL[category][((i - 1) % 2) + 1]
        IN Stmt("local_query", view, view)]

\* _raw_local_stats: the database category only
_raw_local_stats ==
    << Stmt("read", DATABASE_SQL, "pg_stat_database.raw"),
       Stmt("read", CONFLICTS_SQL, "pg_stat_database_conflicts.raw") >>

collect_metrics(version) ==
    [i \in 1..Len(PG_STAT_VIEWS(version)) |->
        Stmt("global", "SELECT * FROM " \o PG_STAT_VIEWS(version)[i] \o ";",
             PG_STAT_VIEWS(version)[i])]
    \o StatStatementsProgram
    \o _aggregated_local_stats
    \o _raw_local_stats
    \o ActivityProgram("activity.aggregated")
    \o << Stmt("reset", RESET_SQL, "") >>

Shapes == {"influx", "pg", "metrics"}

\* collect_metrics_pg with the reset moved in front of the performance reads
ProgramResetEarly(shape, version) ==
    CASE shape = "influx" -> collect_metrics_influx
      [] shape = "pg" ->
           ViewsProgram \o ActivityProgram("sessions") \o StatStatementsProgram
           \o << Stmt("reset", RESET_SQL, ""),
                 Stmt("read", TPS_SQL, ""),
                 Stmt("read", LATENCY_SQL, "performance") >>
      [] OTHER -> collect_metrics(version)

\* the cycles with the end-of-cycle reset left out
ProgramNoReset(shape, version) ==
    CASE shape = "influx" -> SubSeq(collect_metrics_influx, 1, Len(collect_metrics_influx) - 1)
      [] shape = "pg" -> SubSeq(collect_metrics_pg, 1, Len(collect_metrics_pg) - 1)
      [] OTHER -> collect_metrics(version)

\* the cycles with the reset issued first
ProgramResetFirst(shape, version) ==
    CASE shape = "influx" ->
           << Stmt("reset", RESET_SQL, "") >>
           \o SubSeq(collect_metrics_influx, 1, Len(collect_metrics_influx) - 1)
      [] shape = "pg" ->
           << Stmt("reset", RESET_SQL, "") >>
           \o SubSeq(collect_metrics_pg, 1, Len(collect_metrics_pg) - 1)
      [] OTHER -> collect_metrics(version)

Program(shape, version) ==
    CASE shape = "influx" -> collect_metrics_influx
      [] shape = "pg" -> collect_metrics_pg
      [] OTHER -> collect_metrics(version)

\* the position of the first statement of a kind in a program (0: none)
IndexOf(prog, kind) ==
    IF \E i \in 1..Len(prog) : prog[i].kind = kind
    THEN CHOOSE i \in 1..Len(prog) :
            prog[i].kind = kind /\ \A j \in 1..(i - 1) : prog[j].kind # kind
    ELSE 0

\* ------------------------------------------------------------ BloatEstimator
\* Numbers that Python holds as floats are exact rationals <<numerator, denominator>>
\* with a positive denominator; the rounding of binary floating point is not modelled.
CeilDiv(a, b) == -((-a) \div b)

\* Python's a % b for b > 0 (the sign of the divisor)
PyMod(a, b) == a % b

NoneValue == [kind |-> "None", num |-> 0, den |-> 1]

ZeroDivisionError == [kind |-> "ZeroDivisionError", num |-> 0, den |-> 1]

Value(num, den) == [kind |-> "value", num |-> num, den |-> den]

\* a / b cut towards minus infinity instead of rounded up
FloorFrac(a, b) == IF b > 0 THEN a \div b ELSE (-a) \div (-b)

\* math.ceil(a / b) for b # 0
CeilFrac(a, b) == IF b > 0 THEN CeilDiv(a, b) ELSE CeilDiv(-a, -b)

\* the arithmetic of _calculate_bloat_ratio_for_table once is_na is false;
\* f.tpl_data_size is <<n, d>>, the other factors are integers
BloatArithmetic(f, padding_size) ==
    LET n == f.tpl_data_size[1] + padding_size * f.tpl_data_size[2]
        d == f.tpl_data_size[2]
        ma == f.ma
        hdr_rem == IF PyMod(f.tpl_hdr_size, ma) = 0 THEN ma ELSE PyMod(f.tpl_hdr_size, ma)
        data_rem == IF PyMod(CeilDiv(n, d), ma) = 0 THEN ma ELSE PyMod(CeilDiv(n, d), ma)
        \* tpl_size = size_num / d
        size_num == (4 + f.tpl_hdr_size + 2 * ma - hdr_rem - data_rem) * d + n
        \* (bs - page_hdr) * fillfactor / (tpl_size * 100.0) = per_num / per_den
        per_num == (f.bs - f.page_hdr) * f.fillfactor * d
        per_den == size_num * 100
        est_tblpages_ff == CeilFrac(f.reltuples * per_den, per_num)
    IN IF per_den = 0 \/ per_num = 0
       THEN ZeroDivisionError
       ELSE IF f.tblpages - est_tblpages_ff > 0
            THEN IF f.tblpages = 0
                 THEN ZeroDivisionError
                 ELSE Value(100 * (f.tblpages - est_tblpages_ff), f.tblpages)
            ELSE Value(0, 1)

\* the function with the is_na test after the arithmetic
BloatRatioArithmeticFirst(f, padding_size) ==
    IF f.ma = 0 \/ BloatArithmetic(f, padding_size) = ZeroDivisionError
    THEN ZeroDivisionError
    ELSE IF f.is_na THEN NoneValue ELSE BloatArithmetic(f, padding_size)

\* _calculate_bloat_ratio_for_table(is_na, padding_size, **factors)
_calculate_bloat_ratio_for_table(f, padding_size) ==
    IF f.is_na
    THEN NoneValue
    ELSE IF f.ma = 0 THEN ZeroDivisionError ELSE BloatArithmetic(f, padding_size)

\* ALIGNMENT_DICT of pg_table_level_stats_sqls: pg_attribute.attalign to bytes
ALIGNMENT_DICT == [c |-> 1, s |-> 2, i |-> 4, d |-> 8]

\* offset cut down to a multiple of alignment
AlignDown(offset, alignment) == (offset \div alignment) * alignment

\* (offset + mask) & ~mask for mask = alignment - 1, alignment a power of two
\* and offset >= 0: offset rounded up to the next multiple of alignment
AlignUp(offset, alignment) == ((offset + alignment - 1) \div alignment) * alignment

\* the loop of _calculate_padding_size_for_table over table_fields_info[k..],
\* a field being <<relid, attname, attalign, avg_width>>
RECURSIVE PaddingLoop(_, _, _, _)
PaddingLoop(fields, k, offset, padding) ==
    IF k > Len(fields)
    THEN padding + (AlignUp(offset, 4) - offset)
    ELSE LET padded_size == AlignUp(offset, ALIGNMENT_DICT[fields[k][3]])
         IN PaddingLoop(fields, k + 1, padded_size + fields[k][4],
                        padding + (padded_size - offset))

\* the function with the offset started at 0 instead of the first width
PaddingFromZero(table_fields_info) == PaddingLoop(table_fields_info, 2, 0, 0)

\* _calculate_padding_size_for_table(table_fields_info), never called with no field
_calculate_padding_size_for_table(table_fields_info) ==
    PaddingLoop(table_fields_info, 2, table_fields_info[1][4], 0)

\* ------------------------------------------------------------ state
Collectors == {1, 2}

VARIABLES
    \* the server
    stat,           \* a counter of the current database that pg_stat_reset() zeroes
    acc,            \* calls accumulated in pg_stat_statements
    extInstalled,   \* pg_extension holds pg_stat_statements
    acts,           \* server-activity events so far
    faultsLeft,     \* statement failures the environment may still inject
    \* each collector (one is built per cycle by get_collector)
    status,         \* "idle", "running", "returned" or "failed"
    shape,          \* which collect_* method the cycle runs
    version,        \* the version string the collector was built with
    pc,             \* the position in the cycle's program of the next statement
    issued,         \* the statements sent on the connection in this cycle, in order
    metrics,        \* the records appended to the output so far
    res,            \* _get_stat_statements' local res
    metric,         \* the field mapping of the sessions record under construction
    exc,            \* the exception that ended the cycle
    last,           \* the last _cmd / _cmd_wo_fetch call: statement, outcome, result
    cycles,         \* cycles started so far
    \* history of the cycle, for the properties
    report,         \* the value of stat the cycle read (-1: none yet)
    installFailed,  \* CREATE EXTENSION was tried in this cycle and failed
    faulted,        \* a statement other than the install failed although the server could run it
    startedClean,   \* the previous cycle returned normally and the server was idle since
    ownAct,         \* activity since the reset before this cycle started, up to its read
    overlapped,     \* another cycle was running at some time during this one
    cleanSince      \* a cycle returned normally and the server was idle since

serverVars == <<stat, acc, extInstalled, acts, faultsLeft>>
collectorVars == <<status, shape, version, pc, issued, metrics, res, metric, exc, last, cycles>>
historyVars == <<report, installFailed, faulted, startedClean, ownAct, overlapped, cleanSince>>
cycleVars == <<serverVars, collectorVars, historyVars>>

\* {} of Python
EmptyDict == [k \in {} |-> 0]

NoCall == [fn |-> "", sql |-> "", outcome |-> "ok", result |-> [raised |-> FALSE, rows |-> <<>>, meta |-> <<>>, exc |-> NoExc]]

CollectorsInit ==
    /\ stat = 0
    /\ acc = 0
    /\ extInstalled \in BOOLEAN
    /\ acts = 0
    /\ status = [p \in Collectors |-> "idle"]
    /\ shape = [p \in Collectors |-> "pg"]
    /\ version = [p \in Collectors |-> <<13, 0>>]
    /\ pc = [p \in Collectors |-> 0]
    /\ issued = [p \in Collectors |-> <<>>]
    /\ metrics = [p \in Collectors |-> <<>>]
    /\ res = [p \in Collectors |-> <<>>]
    /\ metric = [p \in Collectors |-> EmptyDict]
    /\ exc = [p \in Collectors |-> NoExc]
    /\ last = [p \in Collectors |-> NoCall]
    /\ cycles = [p \in Collectors |-> 0]
    /\ report = [p \in Collectors |-> -1]
    /\ installFailed = [p \in Collectors |-> FALSE]
    /\ faulted = [p \in Collectors |-> FALSE]
    /\ startedClean = [p \in Collectors |-> FALSE]
    /\ ownAct = [p \in Collectors |-> 0]
    /\ overlapped = [p \in Collectors |-> FALSE]
    /\ cleanSince = FALSE

\* one collector, an environment that may fail statements
CycleInit == CollectorsInit /\ faultsLeft = MaxFaults

\* two collectors, an environment that runs every statement it can
OverlapInit == CollectorsInit /\ faultsLeft = 0

\* ------------------------------------------------------------ the server
\* What the server can do with a statement: a read of pg_stat_statements
\* cannot succeed while the extension is not installed.
Forced(sql) == ReadsStatements(sql) /\ ~extInstalled

PossibleOutcomes(sql) ==
    CASE Forced(sql) -> {"execute"}
      [] faultsLeft > 0 -> Outcomes
      [] OTHER -> {"ok"}

\* The rows of pg_stat_statements: one row per statement run since its reset.
StatementRows(n) == IF n = 0 THEN <<>> ELSE << <<Cell(1), Cell(n)>> >>

\* The rows a statement returns in the current server state. The statistics
\* of the databases have a row for the current database and one for the
\* shared objects (datid 0), whose counters were never reset. The three ages
\* are seconds as rationals <<num, den>>: 12.5, 3.2 and 0.0; the two counts
\* are 4 and 1.
ServerRows(sql) ==
    CASE sql = BGWRITER_SQL -> << <<Cell(1), Cell(0)>> >>
      [] sql = DATABASE_SQL -> << <<Cell(1), Cell(stat), Cell(0)>>, <<Cell(0), Cell(0), NULL>> >>
      [] sql = CONFLICTS_SQL -> << <<Cell(1), Cell(0)>>, <<Cell(0), Cell(0)>> >>
      [] sql = PG_STAT_STATEMENTS_EDA_SQL -> StatementRows(acc)
      [] sql \in {TPS_SQL, LATENCY_SQL} -> << <<Cell(acc)>> >>
      [] sql = check_module_sql -> << <<Cell(IF extInstalled THEN 1 ELSE 0)>> >>
      [] sql = OLDEST_BACKEND_SQL -> << <<Cell(<<25, 2>>)>> >>
      [] sql = LONGEST_QUERY_SQL -> << <<Cell(<<16, 5>>)>> >>
      [] sql = LONGEST_XACT_SQL -> << <<Cell(<<0, 1>>)>> >>
      [] sql = NUM_SESSIONS_SQL -> << <<Cell(<<4, 1>>)>> >>
      [] sql = NUM_WAIT_SQL -> << <<Cell(<<1, 1>>)>> >>
      [] OTHER -> << <<Cell(1)>> >>

\* The column names the cursor describes for a statement.
ServerMeta(sql) ==
    CASE sql = BGWRITER_SQL -> <<"checkpoints_timed", "stats_reset">>
      [] sql = DATABASE_SQL -> <<"datid", "xact_commit", "stats_reset">>
      [] sql = CONFLICTS_SQL -> <<"datid", "confl_lock">>
      [] sql = PG_STAT_STATEMENTS_EDA_SQL -> <<"queryid", "calls">>
      [] sql \in {TPS_SQL, LATENCY_SQL} -> <<"calls">>
      [] sql = check_module_sql -> <<"count">>
      [] sql = OLDEST_BACKEND_SQL -> <<"oldest_backend_time_sec">>
      [] sql = LONGEST_QUERY_SQL -> <<"longest_query_time_sec">>
      [] sql = LONGEST_XACT_SQL -> <<"longest_transaction_time_sec">>
      [] sql = NUM_SESSIONS_SQL -> <<"num_sessions">>
      [] sql = NUM_WAIT_SQL -> <<"num_wait_sessions">>
      [] OTHER -> <<"value">>

\* What the server can answer to a statement. Where the environment may still
\* misbehave, a view that has one row by construction answers with none or
\* with two, and the min() of an age query over no session is NULL.
PossibleRows(kind, sql) ==
    {ServerRows(sql)} \cup
    (IF kind = "global" /\ faultsLeft > 0
     THEN {<<>>, ServerRows(sql) \o ServerRows(sql)} ELSE {}) \cup
    (IF sql \in {LONGEST_QUERY_SQL, LONGEST_XACT_SQL} /\ faultsLeft > 0
     THEN {<< <<NULL>> >>} ELSE {})

\* A client other than the collectors runs a statement: the counters grow.
ServerActivity ==
    /\ acts < MaxActivity
    /\ acts' = acts + 1
    /\ stat' = stat + 1
    /\ acc' = IF extInstalled THEN acc + 1 ELSE acc
    /\ cleanSince' = FALSE
    /\ startedClean' = [p \in Collectors |-> FALSE]
    /\ ownAct' = [p \in Collectors |->
                    IF status[p] = "running" /\ report[p] = -1
                    THEN ownAct[p] + 1 ELSE ownAct[p]]
    /\ UNCHANGED <<extInstalled, faultsLeft, collectorVars, report, installFailed, faulted,
                   overlapped>>

\* ------------------------------------------------------------ the collector's steps
Running(p) == status[p] = "running"

Cur(p) == Program(shape[p], version[p])[pc[p]]

At(p, kind) == Running(p) /\ Cur(p).kind = kind

\* with get_collector(driver_conf) as collector: collector.collect_metrics_*(...)
StartCycle(p, s, v) ==
    /\ status[p] # "running"
    /\ cycles[p] < MaxCycles
    /\ cycles' = [cycles EXCEPT ![p] = @ + 1]
    /\ status' = [status EXCEPT ![p] = "running"]
    /\ shape' = [shape EXCEPT ![p] = s]
    /\ version' = [version EXCEPT ![p] = v]
    /\ pc' = [pc EXCEPT ![p] = 1]
    /\ issued' = [issued EXCEPT ![p] = <<>>]
    /\ metrics' = [metrics EXCEPT ![p] = <<>>]
    /\ res' = [res EXCEPT ![p] = <<>>]
    /\ metric' = [metric EXCEPT ![p] = EmptyDict]
    /\ exc' = [exc EXCEPT ![p] = NoExc]
    /\ last' = [last EXCEPT ![p] = NoCall]
    /\ report' = [report EXCEPT ![p] = -1]
    /\ installFailed' = [installFailed EXCEPT ![p] = FALSE]
    /\ faulted' = [faulted EXCEPT ![p] = FALSE]
    /\ startedClean' = [startedClean EXCEPT ![p] = cleanSince]
    /\ ownAct' = [ownAct EXCEPT ![p] = stat]
    /\ overlapped' = [q \in Collectors |->
                        IF q = p THEN \E r \in Collectors \ {p} : Running(r)
                        ELSE overlapped[q] \/ Running(q)]
    /\ cleanSince' = FALSE
    /\ UNCHANGED serverVars

\* The statement goes out on the connection through _cmd or _cmd_wo_fetch.
Send(p, fn, sql, outcome, result) ==
    /\ issued' = [issued EXCEPT ![p] = Append(@, sql)]
    /\ last' = [last EXCEPT ![p] = [fn |-> fn, sql |-> sql, outcome |-> outcome, result |-> result]]
    /\ faulted' = [faulted EXCEPT ![p] = @ \/ (result.raised /\ ~Forced(sql))]
    /\ faultsLeft' = IF result.raised /\ ~Forced(sql) THEN faultsLeft - 1 ELSE faultsLeft

\* An exception leaves the collect_* method.
Raise(p, e) ==
    /\ status' = [status EXCEPT ![p] = "failed"]
    /\ exc' = [exc EXCEPT ![p] = e]
    /\ UNCHANGED <<pc, metrics, res, cleanSince>>

\* Control moves to position k of the program, or past its end: return metrics.
Goto(p, k) ==
    /\ pc' = [pc EXCEPT ![p] = k]
    /\ status' = [status EXCEPT ![p] =
                    IF k > Len(Program(shape[p], version[p])) THEN "returned" ELSE @]
    /\ cleanSince' = IF k > Len(Program(shape[p], version[p])) THEN TRUE ELSE cleanSince
    /\ exc' = exc

Emit(p, name, records) ==
    metrics' = [metrics EXCEPT ![p] = IF name = "" THEN @ ELSE @ \o records]

\* del row[key] for the keys the row has
Without(row, keys) == [k \in (DOMAIN row) \ keys |-> row[k]]

\* d[key] = value
Put(d, key, value) == [k \in (DOMAIN d) \cup {key} |-> IF k = key THEN value ELSE d[k]]

\* int(x) rounding up
PyIntCeil(x) == -((-x[1]) \div x[2])

\* int(x) of a rational <<num, den>>: towards zero
PyInt(x) == IF x[1] >= 0 THEN x[1] \div x[2] ELSE -((-x[1]) \div x[2])

\* the tagged records with the id left in the field mapping
ViewRecordsKeepId(s, kind, sql, name, rows) ==
    CASE s \in {"influx", "pg"} /\ kind = "global" ->
           << [name |-> name, data |-> Without(rows[1], {"stats_reset"})] >>
      [] s = "influx" /\ sql \in {DATABASE_SQL, CONFLICTS_SQL} ->
           [i \in 1..Len(rows) |->
              [name |-> name, tags |-> [datid |-> rows[i].datid],
               data |-> Without(rows[i], {"stats_reset"})]]
      [] s = "pg" /\ sql \in {DATABASE_SQL, CONFLICTS_SQL} ->
           << [name |-> name,
               data |-> [i \in 1..Len(rows) |-> Without(rows[i], {"stats_reset"})]] >>
      [] OTHER -> << [name |-> name, data |-> rows] >>

\* The records the rows of a view become. name stands for the key
\* 'measurement' (influx) or 'table' (pg), data for 'fields' or 'data'.
\*   bgwriter, both shapes: one record of rows[0] without stats_reset
\*   a database view, influx: per row a record tagged {datid: row[datid]},
\*     its fields the row without datid and stats_reset
\*   a database view, pg: one record of the rows without stats_reset
ViewRecords(s, kind, sql, name, rows) ==
    CASE s \in {"influx", "pg"} /\ kind = "global" ->
           << [name |-> name, data |-> Without(rows[1], {"stats_reset"})] >>
      [] s = "influx" /\ sql \in {DATABASE_SQL, CONFLICTS_SQL} ->
           [i \in 1..Len(rows) |->
              [name |-> name, tags |-> [datid |-> rows[i].datid],
               data |-> Without(rows[i], {"datid", "stats_reset"})]]
      [] s = "pg" /\ sql \in {DATABASE_SQL, CONFLICTS_SQL} ->
           << [name |-> name,
               data |-> [i \in 1..Len(rows) |-> Without(rows[i], {"stats_reset"})]] >>
      [] OTHER -> << [name |-> name, data |-> rows] >>

\* rows = self._get_metrics(query), for a global view with assert len(rows) == 1
GetMetricsStep(p) ==
    /\ Running(p) /\ Cur(p).kind \in {"global", "read"}
    /\ \E outcome \in PossibleOutcomes(Cur(p).sql), answer \in PossibleRows(Cur(p).kind, Cur(p).sql) :
         LET sql == Cur(p).sql
             r == _cmd(sql, outcome, answer, ServerMeta(sql))
             rows == _get_metrics(r.rows, r.meta)
         IN /\ Send(p, "_cmd", sql, outcome, r)
            /\ IF r.raised
               THEN Raise(p, r.exc) /\ UNCHANGED report
               ELSE IF Cur(p).kind = "global" /\ Len(rows) # 1
               THEN Raise(p, PythonError("AssertionError")) /\ UNCHANGED report
               ELSE /\ Emit(p, Cur(p).emit, ViewRecords(shape[p], Cur(p).kind, sql, Cur(p).emit, rows))
                    /\ Goto(p, pc[p] + 1)
                    /\ report' = [report EXCEPT ![p] =
                                    IF sql = DATABASE_SQL THEN rows[1].xact_commit ELSE @]
                    /\ res' = res
    /\ UNCHANGED <<stat, acc, extInstalled, acts, shape, version, cycles, installFailed, startedClean,
                   ownAct, overlapped, metric>>

\* metric['fields'] = {}; for q in queries: res, meta = self._cmd(q);
\* metric['fields'][meta[0]] = int(res[0][0]); after the last: metrics.append(metric).
\* int(None) raises TypeError.
ScalarStep(p) ==
    /\ At(p, "scalar")
    /\ \E outcome \in PossibleOutcomes(Cur(p).sql), answer \in PossibleRows("scalar", Cur(p).sql) :
         LET sql == Cur(p).sql
             r == _cmd(sql, outcome, answer, ServerMeta(sql))
         IN /\ Send(p, "_cmd", sql, outcome, r)
            /\ IF r.raised
               THEN Raise(p, r.exc) /\ UNCHANGED metric
               ELSE IF r.rows[1][1] = NULL
               THEN Raise(p, PythonError("TypeError")) /\ UNCHANGED metric
               ELSE /\ metric' = [metric EXCEPT ![p] = Put(@, r.meta[1], PyInt(r.rows[1][1].val))]
                    /\ Emit(p, Cur(p).emit, << [name |-> Cur(p).emit, data |-> metric'[p]] >>)
                    /\ Goto(p, pc[p] + 1)
                    /\ res' = res
    /\ UNCHANGED <<stat, acc, extInstalled, acts, shape, version, cycles, report, installFailed,
                   startedClean, ownAct, overlapped>>

\* _get_stat_statements returns rows: the caller stores them and goes on with
\* the statement after the statistics block.
StatStatementsReturn(p, rows) ==
    /\ metrics' = [metrics EXCEPT ![p] =
          CASE shape[p] = "influx" ->
                 @ \o [i \in 1..Len(rows) |-> [name |-> "query_statistics", data |-> <<rows[i]>>]]
            [] shape[p] = "pg" -> Append(@, [name |-> "query_statistics", data |-> rows])
            [] OTHER -> Append(@, [name |-> "pg_stat_statements", data |-> rows])]
    /\ Goto(p, IndexOf(Program(shape[p], version[p]), "reset_statements") + 1)

\* _load_stat_statements: module_exists = self._cmd(check_module_sql)[0][0][0] == 1
CheckModule(p) ==
    /\ At(p, "check_module")
    /\ \E outcome \in PossibleOutcomes(check_module_sql) :
         LET r == _cmd(check_module_sql, outcome, ServerRows(check_module_sql),
                      ServerMeta(check_module_sql))
         IN /\ Send(p, "_cmd", check_module_sql, outcome, r)
            /\ IF r.raised
               THEN Raise(p, r.exc)
               ELSE /\ IF r.rows[1][1].val = 1
                       THEN Goto(p, IndexOf(Program(shape[p], version[p]), "read_statements"))
                       ELSE Goto(p, pc[p] + 1)
                    /\ UNCHANGED <<metrics, res>>
    /\ UNCHANGED <<stat, acc, extInstalled, acts, shape, version, cycles, report, installFailed,
                   startedClean, ownAct, overlapped, metric>>

\* _load_stat_statements: self._conn.cursor().execute(load_module_sql); commit();
\* on any exception: log, rollback, return False, and _get_stat_statements
\* returns its empty res.
LoadModule(p) ==
    /\ At(p, "load_module")
    /\ issued' = [issued EXCEPT ![p] = Append(@, load_module_sql)]
    /\ \E outcome \in PossibleOutcomes(load_module_sql) \ {"fetchall"} :
         IF outcome = "ok"
         THEN /\ extInstalled' = TRUE
              /\ Goto(p, pc[p] + 1)
              /\ UNCHANGED <<metrics, res, installFailed, faultsLeft>>
         ELSE /\ installFailed' = [installFailed EXCEPT ![p] = TRUE]
              /\ faultsLeft' = faultsLeft - 1
              /\ StatStatementsReturn(p, res[p])
              /\ UNCHANGED <<extInstalled, res>>
    /\ UNCHANGED <<stat, acc, acts, shape, version, cycles, last, faulted, report,
                   startedClean, ownAct, overlapped, metric>>

\* try: res = self._get_metrics(PG_STAT_STATEMENTS_EDA_SQL) ...
\* except PostgresCollectorException: log
ReadStatements(p) ==
    /\ At(p, "read_statements")
    /\ \E outcome \in PossibleOutcomes(PG_STAT_STATEMENTS_EDA_SQL) :
         LET sql == PG_STAT_STATEMENTS_EDA_SQL
             r == _cmd(sql, outcome, ServerRows(sql), ServerMeta(sql))
         IN /\ Send(p, "_cmd", sql, outcome, r)
            /\ IF r.raised
               THEN StatStatementsReturn(p, res[p]) /\ UNCHANGED res
               ELSE /\ res' = [res EXCEPT ![p] = _get_metrics(r.rows, r.meta)]
                    /\ Goto(p, pc[p] + 1)
                    /\ UNCHANGED metrics
    /\ UNCHANGED <<stat, acc, extInstalled, acts, shape, version, cycles, report, installFailed,
                   startedClean, ownAct, overlapped, metric>>

\* ... self._cmd_wo_fetch("select pg_stat_statements_reset(0);"), in the same try
ResetStatements(p) ==
    /\ At(p, "reset_statements")
    /\ \E outcome \in PossibleOutcomes(STATEMENTS_RESET_SQL) :
         LET r == _cmd_wo_fetch(STATEMENTS_RESET_SQL, outcome)
         IN /\ Send(p, "_cmd_wo_fetch", STATEMENTS_RESET_SQL, outcome, r)
            /\ acc' = IF r.raised THEN acc ELSE 0
            /\ StatStatementsReturn(p, res[p])
            /\ UNCHANGED res
    /\ UNCHANGED <<stat, extInstalled, acts, shape, version, cycles, report,
                   installFailed, startedClean, ownAct, overlapped, metric>>

\* _aggregated_local_stats: query = self.PG_STAT_LOCAL_QUERY[view];
\* rows = self._get_metrics(query); data[view] = {"aggregated": rows[0]}
LocalQueryStep(p) ==
    /\ At(p, "local_query")
    /\ IF Cur(p).sql \notin DOMAIN PG_STAT_LOCAL_QUERY
       THEN /\ Raise(p, PythonError("KeyError"))
            /\ UNCHANGED <<issued, last, faulted, faultsLeft>>
       ELSE \E outcome \in PossibleOutcomes(PG_STAT_LOCAL_QUERY[Cur(p).sql]) :
              LET sql == PG_STAT_LOCAL_QUERY[Cur(p).sql]
                  r == _cmd(sql, outcome, ServerRows(sql), ServerMeta(sql))
              IN /\ Send(p, "_cmd", sql, outcome, r)
                 /\ IF r.raised
                    THEN Raise(p, r.exc)
                    ELSE /\ Emit(p, Cur(p).emit,
                              << [name |-> Cur(p).emit, data |-> _get_metrics(r.rows, r.meta)] >>)
                         /\ Goto(p, pc[p] + 1)
                         /\ res' = res
    /\ UNCHANGED <<stat, acc, extInstalled, acts, shape, version, cycles, report, installFailed,
                   startedClean, ownAct, overlapped, metric>>

\* self._cmd_wo_fetch("select pg_stat_reset();")
ResetStep(p) ==
    /\ At(p, "reset")
    /\ \E outcome \in PossibleOutcomes(RESET_SQL) :
         LET r == _cmd_wo_fetch(RESET_SQL, outcome)
         IN /\ Send(p, "_cmd_wo_fetch", RESET_SQL, outcome, r)
            /\ IF r.raised
               THEN Raise(p, r.exc) /\ UNCHANGED stat
               ELSE /\ stat' = 0
                    /\ Goto(p, pc[p] + 1)
                    /\ UNCHANGED <<metrics, res>>
    /\ UNCHANGED <<acc, extInstalled, acts, shape, version, cycles, report,
                   installFailed, startedClean, ownAct, overlapped, metric>>

\* ------------------------------------------------------------ TargetSelector
\* A rendered string is the sequence of its tokens; a number is the one token
\* ToString gives (Python's decimal repr of an int).
\* str(t) of a Python tuple of ints: "()", "(x,)", "(x, y, ...)"
RECURSIVE JoinIds(_, _)
JoinIds(ids, k) ==
    IF k > Len(ids) THEN <<>>
    ELSE (IF k = 1 THEN <<>> ELSE <<", ">>) \o <<ToString(ids[k])>> \o JoinIds(ids, k + 1)

PyTupleStr(t) ==
    CASE Len(t) = 0 -> <<"(", ")">>
      [] Len(t) = 1 -> <<"(", ToString(t[1]), ",", ")">>
      [] OTHER -> <<"(">> \o JoinIds(t, 1) \o <<")">>

\* the rendering with the one-id case left to str(tuple)
RenderIdListNoSingle(ids) ==
    IF Len(ids) >= 1 THEN PyTupleStr(ids) ELSE <<"(", "0", ")">>

\* str(ids) if len(ids) > 1 else (f"({ids[0]})" if len(ids) == 1 else "(0)")
RenderIdList(ids) ==
    IF Len(ids) > 1 THEN PyTupleStr(ids)
    ELSE IF Len(ids) = 1 THEN <<"(", ToString(ids[1]), ")">>
    ELSE <<"(", "0", ")">>

\* get_target_table_info: target_tables_str
target_tables_str(target_tables) == RenderIdList(target_tables)

\* collect_index_metrics: target_indexes_str
target_indexes_str(target_indexes) == RenderIdList(target_indexes)

\* ------------------------------------------------------------ the catalog of the table-level cycle
\* most tables the database holds
MaxTables == 2
\* most rows a ranking query is asked for
MaxTopN == 2

TableIds == 1..MaxTables

\* two indexes on every table: 10 * relid + 1 and 10 * relid + 2
IndexIds == {10 * t + k : t \in TableIds, k \in {1, 2}}

IndexOwner(i) == i \div 10

IndexSize(i) == 8192 * (i % 10)

\* The ids a server reads out of an IN-list: the number tokens. A list that is
\* not "(" number {"," number} ")" is a syntax error.
ListIds(list) == {id \in 0..(10 * MaxTables + 2) : ToString(id) \in Range(list)}

ListValid(list) ==
    /\ Len(list) >= 3
    /\ list[1] = "(" /\ list[Len(list)] = ")"
    /\ \A k \in 2..(Len(list) - 1) :
         IF k % 2 = 0 THEN list[k] \notin {"(", ")", ",", ", "} ELSE list[k] \in {",", ", "}
    /\ Len(list) % 2 = 1

\* the sequences of k distinct members of S: what a ranking can return
Rankings(S, k) ==
    {r \in [1..k -> S] : \A a, b \in 1..k : a # b => r[a] # r[b]}

Min(a, b) == IF a < b THEN a ELSE b

\* a set of numbers as the ascending sequence (ORDER BY relid)
RECURSIVE Ascending(_)
Ascending(S) ==
    IF S = {} THEN <<>>
    ELSE LET m == CHOOSE x \in S : \A y \in S : x <= y
         IN <<m>> \o Ascending(S \ {m})

\* statements of pg_table_level_stats_sqls, by the name of the template
TABLE_LEVEL_STATS_SQLS ==
    << [field |-> "pg_stat_user_tables_all_fields", template |-> "PG_STAT_TABLE_STATS_TEMPLATE"],
       [field |-> "pg_statio_user_tables_all_fields", template |-> "PG_STATIO_TABLE_STATS_TEMPLATE"],
       [field |-> "pg_stat_user_tables_table_sizes", template |-> "TABLE_SIZE_TABLE_STATS_TEMPLATE"] >>

INDEX_STATS_SQLS ==
    << [field |-> "pg_stat_user_indexes_all_fields", template |-> "PG_STAT_USER_INDEXES_TEMPLATE"],
       [field |-> "pg_statio_user_indexes_all_fields", template |-> "PG_STATIO_USER_INDEXES_TEMPLATE"],
       [field |-> "pg_index_all_fields", template |-> "PG_INDEX_TEMPLATE"] >>

\* template.format(table_list=..., index_list=..., n=...): the statement sent
Format(template, list, n) == [template |-> template, list |-> list, n |-> n]

\* ------------------------------------------------------------ the table-level cycle
VARIABLES
    driver_conf,        \* the configuration bundle of the cycle
    catalog,            \* the table ids the database holds
    tpc,                \* "start", "info", "tables", "returned" or "failed"
    target_table_info,  \* what get_target_table_info returned
    index_info,         \* target_indexes and target_indexes_str of collect_index_metrics
    sent,               \* the statements sent on the connection, in order
    data,               \* the driver's data dict: field -> [columns, rows]
    observation,        \* what collect_table_level_data_from_database returned
    texc,               \* the exception that left it
    tableOutcome,       \* "none", "skipped", "ok" or "failed": collect_table_level_metrics
    indexOutcome        \* "none", "skipped", "ok" or "failed": collect_index_metrics

tableVars == <<driver_conf, catalog, tpc, target_table_info, index_info, sent, data,
               observation, texc, tableOutcome, indexOutcome>>

NoInfo == [target_tables |-> <<>>, target_tables_str |-> <<>>]

NoIndexInfo == [target_indexes |-> <<>>, target_indexes_str |-> <<>>]

NoObservation == [data |-> <<>>, summary |-> <<>>, db_key |-> "", organization_id |-> ""]

EmptyConf ==
    [num_table_to_collect_stats |-> 0, num_index_to_collect_stats |-> 0,
     disable_table_level_stats |-> FALSE, disable_index_stats |-> FALSE,
     db_key |-> "", organization_id |-> ""]

TableIdle ==
    /\ driver_conf = EmptyConf
    /\ catalog = {}
    /\ tpc = "start"
    /\ target_table_info = NoInfo
    /\ index_info = NoIndexInfo
    /\ sent = <<>>
    /\ data = <<>>
    /\ observation = NoObservation
    /\ texc = NoExc
    /\ tableOutcome = "none"
    /\ indexOutcome = "none"

TableInit ==
    /\ driver_conf \in
         [num_table_to_collect_stats : 0..MaxTopN,
          num_index_to_collect_stats : 0..MaxTopN,
          disable_table_level_stats : BOOLEAN,
          disable_index_stats : BOOLEAN,
          db_key : {"db"},
          organization_id : {"org"}]
    /\ catalog \in SUBSET TableIds
    /\ tpc = "start"
    /\ target_table_info = NoInfo
    /\ index_info = NoIndexInfo
    /\ sent = <<>>
    /\ data = <<>>
    /\ observation = NoObservation
    /\ texc = NoExc
    /\ tableOutcome = "none"
    /\ indexOutcome = "none"

\* --- the server's side of the statements
\* a statement whose IN-list does not parse cannot run
Runs(stmt) == ListValid(stmt.list)

FailureKinds == Outcomes \ {"ok"}

\* the rows of a per-object statement: one per listed object that exists
ObjectRows(list, existing) == [k \in 1..Cardinality(ListIds(list) \cap existing) |->
                                 <<Ascending(ListIds(list) \cap existing)[k]>>]

IndexCandidates(list) == {i \in IndexIds : IndexOwner(i) \in ListIds(list) \cap catalog}

\* the columns of pg_attribute the padding helper returns for a table, in
\* physical order: <<relid, attname, attalign, avg_width>>
CatalogColumns(relid) ==
    << <<relid, "a", "i", 4>>, <<relid, "b", "c", 1>>, <<relid, "c", "d", 8>> >>

\* the row of the bloat-ratio-factor query for a table
CatalogFactors(relid) ==
    [is_na |-> relid % 2 = 0, tpl_data_size |-> <<13, 1>>, tpl_hdr_size |-> 24, ma |-> 8,
     tblpages |-> 10 * relid, reltuples |-> 1000, bs |-> 8192, page_hdr |-> 24,
     fillfactor |-> 100]

RECURSIVE Flatten(_)
Flatten(ss) == IF ss = <<>> THEN <<>> ELSE ss[1] \o Flatten(Tail(ss))

\* --- dicts, in insertion order: a sequence of <<key, value>> with distinct keys
DictKeys(d) == {d[k][1] : k \in 1..Len(d)}

DictGet(d, key) == (CHOOSE k \in 1..Len(d) : d[k][1] = key) 

DictSet(d, key, value) ==
    IF key \in DictKeys(d)
    THEN [k \in 1..Len(d) |-> IF d[k][1] = key THEN <<key, value>> ELSE d[k]]
    ELSE Append(d, <<key, value>>)

RECURSIVE DictFrom(_, _)
DictFrom(pairs, d) ==
    IF pairs = <<>> THEN d ELSE DictFrom(Tail(pairs), DictSet(d, pairs[1][1], pairs[1][2]))

\* itertools.groupby(rows, lambda x: x[0]): the maximal runs of equal relid
RECURSIVE groupby(_)
groupby(rows) ==
    IF rows = <<>> THEN <<>>
    ELSE LET key == rows[1][1]
             stop == IF \E k \in 1..Len(rows) : rows[k][1] # key
                     THEN (CHOOSE k \in 1..Len(rows) :
                             rows[k][1] # key /\ \A j \in 1..(k - 1) : rows[j][1] = key)
                     ELSE Len(rows) + 1
         IN << <<key, SubSeq(rows, 1, stop - 1)>> >> \o groupby(SubSeq(rows, stop, Len(rows)))

\* _calculate_padding_size_for_tables(raw_fields_info)
_calculate_padding_size_for_tables(raw_fields_info) ==
    DictFrom([k \in 1..Len(groupby(raw_fields_info)) |->
                <<groupby(raw_fields_info)[k][1],
                  _calculate_padding_size_for_table(groupby(raw_fields_info)[k][2])>>],
             <<>>)

\* _retrive_bloat_ratio_factors_for_tables: {factor[0]: dict(zip(columns[1:], factor[1:]))};
\* a factor row is <<relid, factors>>
_retrive_bloat_ratio_factors_for_tables(rows) == DictFrom(rows, <<>>)

\* _calculate_bloat_ratios leaving out the tables that have no padding entry
_calculate_bloat_ratios_strict(padding_size_dict, bloat_ratio_factors_dict) ==
    LET HasPadding(pair) == pair[1] \in DictKeys(padding_size_dict)
        kept == SelectSeq(bloat_ratio_factors_dict, HasPadding)
    IN [k \in 1..Len(kept) |->
          <<kept[k][1],
            _calculate_bloat_ratio_for_table(
                kept[k][2], padding_size_dict[DictGet(padding_size_dict, kept[k][1])][2])>>]

\* _calculate_bloat_ratios(padding_size_dict, bloat_ratio_factors_dict)
_calculate_bloat_ratios(padding_size_dict, bloat_ratio_factors_dict) ==
    [k \in 1..Len(bloat_ratio_factors_dict) |->
        LET relid == bloat_ratio_factors_dict[k][1]
            padding_size == IF relid \in DictKeys(padding_size_dict)
                            THEN padding_size_dict[DictGet(padding_size_dict, relid)][2]
                            ELSE 0
        IN <<relid, _calculate_bloat_ratio_for_table(bloat_ratio_factors_dict[k][2],
                                                     padding_size)>>]

\* --- the collector's table-level methods
TableColumns(field) ==
    CASE field = "pg_stat_user_tables_all_fields" -> <<"relid", "schemaname", "relname", "seq_scan">>
      [] field = "pg_statio_user_tables_all_fields" -> <<"relid", "schemaname", "relname", "heap_blks_read">>
      [] field = "pg_stat_user_tables_table_sizes" -> <<"relid", "indexes_size", "relation_size", "toast_size">>
      [] field = "pg_stat_user_indexes_all_fields" -> <<"relid", "indexrelid", "idx_scan">>
      [] field = "pg_statio_user_indexes_all_fields" -> <<"indexrelid", "idx_blks_read", "idx_blks_hit">>
      [] OTHER -> <<"indexrelid", "indrelid", "indnatts">>

\* get_target_table_info, given the rows of the ranking query
get_target_table_info(rows) ==
    LET target_tables == [k \in 1..Len(rows) |-> rows[k][1]]
    IN [target_tables |-> target_tables,
        target_tables_str |-> target_tables_str(target_tables)]

\* collect_table_level_metrics with the bloat queries sent whatever the selection
TableStatementsAlways(info) ==
    [k \in 1..Len(TABLE_LEVEL_STATS_SQLS) |->
        Format(TABLE_LEVEL_STATS_SQLS[k].template, info.target_tables_str, -1)]
    \o << Format("PADDING_HELPER_TEMPLATE", info.target_tables_str, -1),
          Format("TABLE_BLOAT_RATIO_FACTOR_TEMPLATE", info.target_tables_str, -1) >>

\* the statements collect_table_level_metrics sends when none fails
TableStatements(info) ==
    [k \in 1..Len(TABLE_LEVEL_STATS_SQLS) |->
        Format(TABLE_LEVEL_STATS_SQLS[k].template, info.target_tables_str, -1)]
    \o (IF Len(info.target_tables) > 0
        THEN << Format("PADDING_HELPER_TEMPLATE", info.target_tables_str, -1),
                Format("TABLE_BLOAT_RATIO_FACTOR_TEMPLATE",
                       info.target_tables_str, -1) >>
        ELSE <<>>)

\* the first statement of a sequence the server cannot run (0: none)
FirstBad(stmts) ==
    IF \E k \in 1..Len(stmts) : ~Runs(stmts[k])
    THEN CHOOSE k \in 1..Len(stmts) : ~Runs(stmts[k]) /\ \A j \in 1..(k - 1) : Runs(stmts[j])
    ELSE 0

\* failAt = 0: every statement runs; failAt = k: statement k raises
Feasible(stmts, failAt) ==
    IF FirstBad(stmts) = 0 THEN TRUE ELSE failAt \in 1..FirstBad(stmts)

\* collect_table_level_metrics(target_table_info)
collect_table_level_metrics(info, failAt, kind) ==
    LET stmts == TableStatements(info)
        list == info.target_tables_str
        padding_size_dict ==
            _calculate_padding_size_for_tables(
                Flatten([k \in 1..Len(ObjectRows(list, catalog)) |->
                           CatalogColumns(ObjectRows(list, catalog)[k][1])]))
        bloat_ratio_factors_dict ==
            _retrive_bloat_ratio_factors_for_tables(
                [k \in 1..Len(ObjectRows(list, catalog)) |->
                   <<ObjectRows(list, catalog)[k][1],
                     CatalogFactors(ObjectRows(list, catalog)[k][1])>>])
    IN IF failAt > 0
       THEN [raised |-> TRUE, sent |-> SubSeq(stmts, 1, failAt),
             exc |-> _cmd(stmts[failAt], kind, <<>>, <<>>).exc, metrics |-> <<>>]
       ELSE [raised |-> FALSE, sent |-> stmts, exc |-> NoExc,
             metrics |->
               [k \in 1..Len(TABLE_LEVEL_STATS_SQLS) |->
                  <<TABLE_LEVEL_STATS_SQLS[k].field,
                    [columns |-> TableColumns(TABLE_LEVEL_STATS_SQLS[k].field),
                     rows |-> ObjectRows(list, catalog)]>>]
               \o << <<"table_bloat_ratios",
                       [columns |-> <<"relid", "bloat_ratio">>,
                        rows |-> IF Len(info.target_tables) > 0
                                 THEN _calculate_bloat_ratios(padding_size_dict,
                                                              bloat_ratio_factors_dict)
                                 ELSE <<>>]>> >>]

\* the index ranking sent with a list rendered again from the ids
IndexRankingRerendered(info, n) ==
    Format("TOP_N_LARGEST_INDEXES_SQL_TEMPLATE", PyTupleStr(info.target_tables), n)

\* the index-ranking statement of collect_index_metrics
IndexRanking(info, n) ==
    Format("TOP_N_LARGEST_INDEXES_SQL_TEMPLATE", info.target_tables_str, n)

\* collect_index_metrics asking the server for the sizes once more
IndexStatementsAskingSizes(info, n, ranked) ==
    << Format("TOP_N_LARGEST_INDEXES_SQL_TEMPLATE", info.target_tables_str, n) >>
    \o [k \in 1..Len(INDEX_STATS_SQLS) |->
          Format(INDEX_STATS_SQLS[k].template, target_indexes_str(ranked), -1)]
    \o << Format("TOP_N_LARGEST_INDEXES_SQL_TEMPLATE", info.target_tables_str, n) >>

\* the statements collect_index_metrics sends when none fails and the ranking
\* returns the indexes ranked
IndexStatements(info, n, ranked) ==
    << IndexRanking(info, n) >>
    \o [k \in 1..Len(INDEX_STATS_SQLS) |->
          Format(INDEX_STATS_SQLS[k].template, target_indexes_str(ranked), -1)]

\* collect_index_metrics(target_table_info, num_index_to_collect_stats)
collect_index_metrics(info, n, ranked, failAt, kind) ==
    LET stmts == IndexStatements(info, n, ranked)
        target_indexes_tuple == [k \in 1..Len(ranked) |-> <<ranked[k], IndexSize(ranked[k])>>]
        target_indexes == [k \in 1..Len(ranked) |-> target_indexes_tuple[k][1]]
        list == target_indexes_str(target_indexes)
        index_rows == ObjectRows(list, {i \in IndexIds : IndexOwner(i) \in catalog})
    IN IF failAt > 0
       THEN [raised |-> TRUE, sent |-> SubSeq(stmts, 1, failAt),
             exc |-> _cmd(stmts[failAt], kind, <<>>, <<>>).exc, metrics |-> <<>>,
             info |-> IF failAt = 1 THEN NoIndexInfo
                      ELSE [target_indexes |-> target_indexes, target_indexes_str |-> list]]
       ELSE [raised |-> FALSE, sent |-> stmts, exc |-> NoExc,
             metrics |->
               [k \in 1..Len(INDEX_STATS_SQLS) |->
                  <<INDEX_STATS_SQLS[k].field,
                    [columns |-> TableColumns(INDEX_STATS_SQLS[k].field),
                     rows |-> index_rows]>>]
               \o << <<"indexes_size",
                       [columns |-> <<"indexrelid", "index_size">>,
                        rows |-> IF Len(target_indexes) > 0
                                 THEN [k \in 1..Len(ranked) |->
                                         <<target_indexes_tuple[k][1],
                                           target_indexes_tuple[k][2]>>]
                                 ELSE <<>>]>> >>,
             info |-> [target_indexes |-> target_indexes, target_indexes_str |-> list]]

\* --- driver.exceptions: the collector errors derive from DbCollectorException
IsDbCollectorException(e) ==
    e.type \in {"DbCollectorException", "PostgresCollectorException", "MysqlCollectorException"}

\* a driver without the try around collect_index_metrics
CaughtNever(e) == FALSE

\* except DbCollectorException: logging.exception(...)
Caught(e) == IsDbCollectorException(e)

\* --- collect_table_level_data_from_database, step by step
\* target_table_info = collector.get_target_table_info(driver_conf["num_table_to_collect_stats"])
GetTargetTableInfo ==
    /\ tpc = "start"
    /\ LET n == driver_conf.num_table_to_collect_stats
           stmt == Format("TOP_N_LARGEST_TABLES_SQL_TEMPLATE", <<>>, n)
       IN \E outcome \in Outcomes, ranked \in Rankings(catalog, Min(n, Cardinality(catalog))) :
            LET r == _cmd(stmt, outcome, [k \in 1..Len(ranked) |-> <<ranked[k]>>], <<"relid">>)
            IN /\ sent' = Append(sent, stmt)
               /\ IF r.raised
                  THEN /\ tpc' = "failed"
                       /\ texc' = r.exc
                       /\ UNCHANGED target_table_info
                  ELSE /\ tpc' = "info"
                       /\ target_table_info' = get_target_table_info(r.rows)
                       /\ UNCHANGED texc
    /\ UNCHANGED <<driver_conf, catalog, index_info, data, observation, tableOutcome,
                   indexOutcome>>

\* if not driver_conf.get("disable_table_level_stats", False):
\*     data.update(collector.collect_table_level_metrics(target_table_info))
CollectTableLevel ==
    /\ tpc = "info"
    /\ IF driver_conf.disable_table_level_stats
       THEN /\ tpc' = "tables"
            /\ tableOutcome' = "skipped"
            /\ UNCHANGED <<sent, data, texc>>
       ELSE \E failAt \in 0..Len(TableStatements(target_table_info)), kind \in FailureKinds :
              /\ Feasible(TableStatements(target_table_info), failAt)
              /\ LET r == collect_table_level_metrics(target_table_info, failAt, kind)
                 IN /\ sent' = sent \o r.sent
                    /\ IF r.raised
                       THEN /\ tpc' = "failed"
                            /\ texc' = r.exc
                            /\ tableOutcome' = "failed"
                            /\ UNCHANGED data
                       ELSE /\ tpc' = "tables"
                            /\ data' = DictFrom(r.metrics, data)
                            /\ tableOutcome' = "ok"
                            /\ UNCHANGED texc
    /\ UNCHANGED <<driver_conf, catalog, target_table_info, index_info, observation,
                   indexOutcome>>

\* the observation built after the with block
Observation(d) ==
    [data |-> d, summary |-> <<"version", "observation_time">>,
     db_key |-> driver_conf.db_key, organization_id |-> driver_conf.organization_id]

\* if not driver_conf.get("disable_index_stats", False): try: data.update(
\*     collector.collect_index_metrics(...)) except DbCollectorException: log
\* then the summary and the observation
CollectIndex ==
    /\ tpc = "tables"
    /\ IF driver_conf.disable_index_stats
       THEN /\ tpc' = "returned"
            /\ indexOutcome' = "skipped"
            /\ observation' = Observation(data)
            /\ UNCHANGED <<sent, data, texc, index_info>>
       ELSE \E ranked \in Rankings(IndexCandidates(target_table_info.target_tables_str),
                                   Min(driver_conf.num_index_to_collect_stats,
                                       Cardinality(IndexCandidates(
                                           target_table_info.target_tables_str)))),
               failAt \in 0..(1 + Len(INDEX_STATS_SQLS)), kind \in FailureKinds :
              /\ Feasible(IndexStatements(target_table_info,
                                          driver_conf.num_index_to_collect_stats, ranked),
                          failAt)
              /\ LET r == collect_index_metrics(target_table_info,
                                                driver_conf.num_index_to_collect_stats,
                                                ranked, failAt, kind)
                 IN /\ sent' = sent \o r.sent
                    /\ index_info' = r.info
                    /\ IF r.raised /\ ~Caught(r.exc)
                       THEN /\ tpc' = "failed"
                            /\ texc' = r.exc
                            /\ indexOutcome' = "failed"
                            /\ UNCHANGED <<data, observation>>
                       ELSE /\ tpc' = "returned"
                            /\ data' = IF r.raised THEN data ELSE DictFrom(r.metrics, data)
                            /\ indexOutcome' = IF r.raised THEN "failed" ELSE "ok"
                            /\ observation' = Observation(data')
                            /\ UNCHANGED texc
    /\ UNCHANGED <<driver_conf, catalog, target_table_info, tableOutcome>>

\* ------------------------------------------------------------ the bloat ratio on its own
VARIABLES
    factors,        \* one row of the bloat-ratio-factor query, with the table's padding
    bloat_ratio     \* what _calculate_bloat_ratio_for_table returned for it

bloatVars == <<factors, bloat_ratio>>

Pending == [kind |-> "pending", num |-> 0, den |-> 1]

\* Factor rows of the catalog: block size and page header of a stock build,
\* fill factors 10..100, pg_class.reltuples -1 for a relation never analysed
\* (PostgreSQL 14 on) and relpages 0 for an empty one.
FactorSpace ==
    [is_na : BOOLEAN,
     padding_size : {0, 3, 7},
     tpl_data_size : {<<0, 1>>, <<17, 2>>, <<1000, 1>>},
     tpl_hdr_size : {23, 24},
     ma : {4, 8},
     tblpages : {0, 1, 10},
     reltuples : {-1, 0, 1, 1000},
     bs : {8192},
     page_hdr : {24},
     fillfactor : {10, 100}]

NoFactors ==
    [is_na |-> TRUE, padding_size |-> 0, tpl_data_size |-> <<0, 1>>, tpl_hdr_size |-> 23,
     ma |-> 8, tblpages |-> 0, reltuples |-> 0, bs |-> 8192, page_hdr |-> 24,
     fillfactor |-> 100]

BloatIdle == factors = NoFactors /\ bloat_ratio = Pending

BloatInit == factors \in FactorSpace /\ bloat_ratio = Pending

CalculateBloatRatio ==
    /\ bloat_ratio = Pending
    /\ bloat_ratio' = _calculate_bloat_ratio_for_table(factors, factors.padding_size)
    /\ UNCHANGED factors

\* ------------------------------------------------------------ the pure functions on their own
\* most columns of a table
MaxColumns == 3

VARIABLES
    table_fields_info,  \* the padding-helper rows of one table
    padding,            \* _calculate_padding_size_for_table(table_fields_info) (-1: not called)
    padding_appended    \* the same with a zero-width column appended

paddingVars == <<table_fields_info, padding, padding_appended>>

PaddingIdle == table_fields_info = <<>> /\ padding = -1 /\ padding_appended = -1

\* most rows and most columns of a query result
MaxRows == 2

MaxCols == 2

VARIABLES
    query_result,   \* what _cmd returned to _get_metrics: [ret, col]
    rows_out        \* what _get_metrics returned, in a one-element sequence (<<>>: not called)

getMetricsVars == <<query_result, rows_out>>

GetMetricsIdle == query_result = [ret |-> <<>>, col |-> <<>>] /\ rows_out = <<>>

\* a cell is NULL, 0 or 1; the column names are distinct or all the same
GetMetricsInit ==
    /\ \E n \in 0..MaxRows, m \in 1..MaxCols :
         query_result \in
            [ret : [1..n -> [1..m -> {NULL, Cell(0), Cell(1)}]],
             col : {[k \in 1..m |-> <<"a", "b", "c">>[k]], [k \in 1..m |-> "a"]}]
    /\ rows_out = <<>>

CallGetMetrics ==
    /\ rows_out = <<>>
    /\ rows_out' = << _get_metrics(query_result.ret, query_result.col) >>
    /\ UNCHANGED query_result

\* most rows the padding helper returns
MaxFieldRows == 3

VARIABLES
    ratios_in,      \* the rows of the padding helper and of the factor query: [raw, factors]
    ratios_out      \* <<>> or the one record [padding_size_dict, rows] computed from them

ratiosVars == <<ratios_in, ratios_out>>

RatiosIdle == ratios_in = [raw |-> <<>>, factors |-> <<>>] /\ ratios_out = <<>>

\* The helper rows are columns of the tables in any order, sorted by table or
\* not; the factor query returns one row for each of some tables, in any order.
RatiosInit ==
    /\ \E n \in 0..MaxFieldRows, T \in SUBSET TableIds :
         ratios_in \in
            [raw : [1..n -> {<<t, "a", al, 1>> : t \in TableIds, al \in {"c", "d"}}],
             factors : {[k \in 1..Cardinality(T) |-> <<r[k], CatalogFactors(r[k])>>] :
                           r \in Rankings(T, Cardinality(T))}]
    /\ ratios_out = <<>>

\* what collect_table_level_metrics does with the two results
CalculateRatios ==
    /\ ratios_out = <<>>
    /\ ratios_out' =
         << [padding_size_dict |-> _calculate_padding_size_for_tables(ratios_in.raw),
             rows |-> _calculate_bloat_ratios(
                          _calculate_padding_size_for_tables(ratios_in.raw),
                          _retrive_bloat_ratio_factors_for_tables(ratios_in.factors))] >>
    /\ UNCHANGED ratios_in

pureVars == <<paddingVars, getMetricsVars, ratiosVars>>

PureIdle == PaddingIdle /\ GetMetricsIdle /\ RatiosIdle

\* avg_width of pg_stats: whole bytes, 0 for a column of empty values
Widths == {0, 1, 2, 4, 8}

\* the padding-helper rows of table 1: <<relid, attname, attalign, avg_width>>
FieldRows == {<<1, "a", al, w>> : al \in DOMAIN ALIGNMENT_DICT, w \in Widths}

PaddingInit ==
    /\ table_fields_info \in UNION {[1..n -> FieldRows] : n \in 1..MaxColumns}
    /\ padding = -1
    /\ padding_appended = -1

\* a last column of width zero with the alignment of the one before it
ZeroWidthColumn(fields) == <<fields[Len(fields)][1], "z", fields[Len(fields)][3], 0>>

CalculatePadding ==
    /\ padding = -1
    /\ padding' = _calculate_padding_size_for_table(table_fields_info)
    /\ padding_appended' =
         _calculate_padding_size_for_table(
             Append(table_fields_info, ZeroWidthColumn(table_fields_info)))
    /\ UNCHANGED table_fields_info

\* ------------------------------------------------------------ specifications
vars == <<cycleVars, tableVars, bloatVars, pureVars>>

\* One collector: a cycle starts only when the previous one has ended.
Next ==
    \/ ServerActivity /\ UNCHANGED <<tableVars, bloatVars, pureVars>>
    \/ (\E s \in Shapes, v \in Versions : StartCycle(1, s, v))
       /\ UNCHANGED <<tableVars, bloatVars, pureVars>>
    \/ GetMetricsStep(1) /\ UNCHANGED <<tableVars, bloatVars, pureVars>>
    \/ ScalarStep(1) /\ UNCHANGED <<tableVars, bloatVars, pureVars>>
    \/ CheckModule(1) /\ UNCHANGED <<tableVars, bloatVars, pureVars>>
    \/ LoadModule(1) /\ UNCHANGED <<tableVars, bloatVars, pureVars>>
    \/ ReadStatements(1) /\ UNCHANGED <<tableVars, bloatVars, pureVars>>
    \/ ResetStatements(1) /\ UNCHANGED <<tableVars, bloatVars, pureVars>>
    \/ LocalQueryStep(1) /\ UNCHANGED <<tableVars, bloatVars, pureVars>>
    \/ ResetStep(1) /\ UNCHANGED <<tableVars, bloatVars, pureVars>>

Init == CycleInit /\ TableIdle /\ BloatIdle /\ PureIdle

Spec == Init /\ [][Next]_vars

\* Two collectors run collect_metrics_pg against the same server, nothing
\* keeping their cycles apart.
NextOverlap ==
    \/ ServerActivity /\ UNCHANGED <<tableVars, bloatVars, pureVars>>
    \/ (\E p \in Collectors : cycles[p] < MaxOverlapCycles /\ StartCycle(p, "pg", <<13, 0>>))
       /\ UNCHANGED <<tableVars, bloatVars, pureVars>>
    \/ (\E p \in Collectors : GetMetricsStep(p)) /\ UNCHANGED <<tableVars, bloatVars, pureVars>>
    \/ (\E p \in Collectors : ScalarStep(p)) /\ UNCHANGED <<tableVars, bloatVars, pureVars>>
    \/ (\E p \in Collectors : CheckModule(p)) /\ UNCHANGED <<tableVars, bloatVars, pureVars>>
    \/ (\E p \in Collectors : LoadModule(p)) /\ UNCHANGED <<tableVars, bloatVars, pureVars>>
    \/ (\E p \in Collectors : ReadStatements(p)) /\ UNCHANGED <<tableVars, bloatVars, pureVars>>
    \/ (\E p \in Collectors : ResetStatements(p)) /\ UNCHANGED <<tableVars, bloatVars, pureVars>>
    \/ (\E p \in Collectors : ResetStep(p)) /\ UNCHANGED <<tableVars, bloatVars, pureVars>>

InitOverlap == OverlapInit /\ TableIdle /\ BloatIdle /\ PureIdle

SpecOverlap == InitOverlap /\ [][NextOverlap]_vars

\* One table-level cycle of the driver.
NextTable ==
    \/ GetTargetTableInfo /\ UNCHANGED <<cycleVars, bloatVars, pureVars>>
    \/ CollectTableLevel /\ UNCHANGED <<cycleVars, bloatVars, pureVars>>
    \/ CollectIndex /\ UNCHANGED <<cycleVars, bloatVars, pureVars>>

InitTable == OverlapInit /\ TableInit /\ BloatIdle /\ PureIdle

SpecTable == InitTable /\ [][NextTable]_vars

\* The bloat ratio of one factor row.
NextBloat == CalculateBloatRatio /\ UNCHANGED <<cycleVars, tableVars, pureVars>>

InitBloat == OverlapInit /\ TableIdle /\ BloatInit /\ PureIdle

SpecBloat == InitBloat /\ [][NextBloat]_vars

\* The padding of one table's columns.
NextPadding ==
    CalculatePadding /\ UNCHANGED <<cycleVars, tableVars, bloatVars, getMetricsVars, ratiosVars>>

InitPadding == OverlapInit /\ TableIdle /\ BloatIdle /\ PaddingInit /\ GetMetricsIdle /\ RatiosIdle

SpecPadding == InitPadding /\ [][NextPadding]_vars

\* _get_metrics on one query result.
NextGetMetrics ==
    CallGetMetrics /\ UNCHANGED <<cycleVars, tableVars, bloatVars, paddingVars, ratiosVars>>

InitGetMetrics == OverlapInit /\ TableIdle /\ BloatIdle /\ PaddingIdle /\ GetMetricsInit /\ RatiosIdle

SpecGetMetrics == InitGetMetrics /\ [][NextGetMetrics]_vars

\* The bloat ratios of the tables of one cycle.
NextRatios ==
    CalculateRatios /\ UNCHANGED <<cycleVars, tableVars, bloatVars, paddingVars, getMetricsVars>>

InitRatios == OverlapInit /\ TableIdle /\ BloatIdle /\ PaddingIdle /\ GetMetricsIdle /\ RatiosInit

SpecRatios == InitRatios /\ [][NextRatios]_vars

\* ------------------------------------------------------------ properties
\* C1: a collect_metrics_influx or collect_metrics_pg cycle that returns
\* normally has issued 'select pg_stat_reset();' exactly once, and as the last
\* statement on its connection: no read of the cycle follows it.
ResetOnceAndLast ==
    \A p \in Collectors :
        (status[p] = "returned" /\ shape[p] \in {"influx", "pg"}) =>
            /\ Count(issued[p], RESET_SQL) = 1
            /\ Last(issued[p]) = RESET_SQL
            /\ \A k \in 1..(Len(issued[p]) - 1) : issued[p][k] # RESET_SQL

ResetOnceAndLastWitness ==
    /\ status[1] = "returned"
    /\ shape[1] = "pg"
    /\ TPS_SQL \in Range(issued[1])
    /\ Last(issued[1]) = RESET_SQL

\* C2: when the extension is absent and CREATE EXTENSION fails (and no other
\* statement fails that the server could run), the cycle of every shape ends
\* by returning normally, its last statement the end-of-cycle reset, and its
\* per-query statistics empty.
InstallFailureNeverFatal ==
    \A p \in Collectors :
        (installFailed[p] /\ ~faulted[p] /\ status[p] \in {"returned", "failed"}) =>
            /\ status[p] = "returned"
            /\ Last(issued[p]) = RESET_SQL
            /\ \A k \in 1..Len(metrics[p]) :
                 metrics[p][k].name \in {"query_statistics", "pg_stat_statements"} =>
                    metrics[p][k].data = <<>>

\* C3: a cycle started right after another returned normally, with no server
\* activity since, reads zero from the counter the first one reset.
SecondCycleReadsZero ==
    \A p \in Collectors : (report[p] # -1 /\ startedClean[p]) => report[p] = 0

SecondCycleReadsZeroWitness ==
    /\ cycles[1] = 2
    /\ acts > 0
    /\ startedClean[1]
    /\ report[1] = 0
    /\ status[1] = "returned"

\* C4: a cycle that no other cycle overlapped reports exactly the activity
\* since the reset before it; a cycle that was overlapped can report something
\* else (the witness), the other's reset having wiped what it had not read.
NoOverlapNoCorruption ==
    \A p \in Collectors : (report[p] # -1 /\ ~overlapped[p]) => report[p] = ownAct[p]

OverlapCorrupts ==
    \E p \in Collectors :
        /\ report[p] # -1
        /\ overlapped[p]
        /\ report[p] < ownAct[p]
        /\ \A q \in Collectors : report[q] # -1 /\ status[q] = "returned"
        /\ \A q \in Collectors : report[q] = 0

\* C5: a call of _cmd fails when the cursor, the execute or the fetch fails, a
\* call of _cmd_wo_fetch when the cursor or the execute fails; the caller then
\* gets one PostgresCollectorException whose message holds the statement and
\* whose cause is the underlying error, and neither rows nor column names.
CmdFailureWrapped ==
    \A p \in Collectors :
        LET c == last[p]
        IN /\ c.result.raised <=>
                \/ c.fn = "_cmd" /\ c.outcome # "ok"
                \/ c.fn = "_cmd_wo_fetch" /\ c.outcome \in {"cursor", "execute"}
           /\ c.result.raised =>
                /\ c.result.exc.type = "PostgresCollectorException"
                /\ c.sql \in Range(c.result.exc.msg)
                /\ c.result.exc.cause # "none"
                /\ c.result.exc.cause = UnderlyingError(c.outcome)
                /\ c.result.rows = <<>>
                /\ c.result.meta = <<>>
           /\ (status[p] = "failed" /\ exc[p].type = "PostgresCollectorException") =>
                exc[p] = c.result.exc

CmdFailureWrappedWitness ==
    /\ last[1].fn = "_cmd"
    /\ last[1].outcome = "fetchall"
    /\ last[1].sql = DATABASE_SQL
    /\ status[1] = "failed"
    /\ exc[1].type = "PostgresCollectorException"

\* C6: in a table-level cycle the table ranking is sent once and first; every
\* per-table statement and the index ranking carry the id list of the one
\* target_table_info, whatever the disable flags.
SelectionHeldFixed ==
    /\ sent # <<>> => sent[1].template = "TOP_N_LARGEST_TABLES_SQL_TEMPLATE"
    /\ \A k \in 2..Len(sent) : sent[k].template # "TOP_N_LARGEST_TABLES_SQL_TEMPLATE"
    /\ \A k \in 1..Len(sent) :
         sent[k].template \in
            {TABLE_LEVEL_STATS_SQLS[j].template : j \in 1..Len(TABLE_LEVEL_STATS_SQLS)}
            \cup {"PADDING_HELPER_TEMPLATE", "TABLE_BLOAT_RATIO_FACTOR_TEMPLATE",
                  "TOP_N_LARGEST_INDEXES_SQL_TEMPLATE"}
         => sent[k].list = target_table_info.target_tables_str

SelectionHeldFixedWitness ==
    /\ tpc = "returned"
    /\ tableOutcome = "ok"
    /\ indexOutcome = "ok"
    /\ Len(target_table_info.target_tables) = 1
    /\ Len(sent) = 10

\* C7: when collect_table_level_metrics succeeded and a statement of
\* collect_index_metrics fails, the cycle still returns an observation with
\* the four table-level keys, no index-level key, the summary, db_key and
\* organization_id; when a statement of collect_table_level_metrics fails the
\* exception leaves the cycle and there is no observation.
IndexFailureCaught ==
    /\ (tableOutcome = "ok" /\ indexOutcome = "failed") =>
          /\ tpc = "returned"
          /\ DictKeys(observation.data) =
               {TABLE_LEVEL_STATS_SQLS[j].field : j \in 1..Len(TABLE_LEVEL_STATS_SQLS)}
               \cup {"table_bloat_ratios"}
          /\ Len(observation.data) = 4
          /\ observation.summary = <<"version", "observation_time">>
          /\ observation.db_key = driver_conf.db_key
          /\ observation.organization_id = driver_conf.organization_id
    /\ tableOutcome = "failed" =>
          /\ tpc = "failed"
          /\ texc.type = "PostgresCollectorException"
          /\ observation = NoObservation
          /\ indexOutcome = "none"

IndexFailureCaughtWitness ==
    /\ tableOutcome = "ok"
    /\ indexOutcome = "failed"
    /\ tpc = "returned"
    /\ Len(sent) = 8
    /\ Len(observation.data) = 4

\* C8: when the table ranking returns no ids the info holds the empty id
\* sequence and the string "(0)"; collect_table_level_metrics then returns
\* table_bloat_ratios with columns relid, bloat_ratio and no rows, and sends
\* neither the padding-helper nor the bloat-ratio-factor statement.
EmptySelection ==
    (Len(sent) >= 1 /\ ~(tpc = "failed" /\ Len(sent) = 1)
       /\ target_table_info.target_tables = <<>>) =>
        /\ target_table_info.target_tables_str = <<"(", "0", ")">>
        /\ \A k \in 1..Len(sent) :
             sent[k].template \notin
                {"PADDING_HELPER_TEMPLATE", "TABLE_BLOAT_RATIO_FACTOR_TEMPLATE"}
        /\ tableOutcome = "ok" =>
             /\ "table_bloat_ratios" \in DictKeys(data)
             /\ data[DictGet(data, "table_bloat_ratios")][2] =
                  [columns |-> <<"relid", "bloat_ratio">>, rows |-> <<>>]

EmptySelectionWitness ==
    /\ tableOutcome = "ok"
    /\ driver_conf.num_table_to_collect_stats > 0
    /\ target_table_info.target_tables = <<>>
    /\ target_table_info.target_tables_str = <<"(", "0", ")">>
    /\ Len(sent) = 4

\* C9: the id list of the table ranking and the id list of the index ranking
\* are rendered "(0)" for no id, "(x)" for one id x, and for two or more ids
\* as "(" id ", " id ... ")" with every id once, in the order of the ranking.
ThreeWayRendering ==
    \A pair \in
        (IF Len(sent) >= 1 /\ ~(tpc = "failed" /\ Len(sent) = 1)
         THEN {<<target_table_info.target_tables, target_table_info.target_tables_str>>}
         ELSE {})
        \cup
        (IF indexOutcome = "ok" \/ index_info # NoIndexInfo
         THEN {<<index_info.target_indexes, index_info.target_indexes_str>>}
         ELSE {}) :
        LET ids == pair[1]
            str == pair[2]
        IN CASE Len(ids) = 0 -> str = <<"(", "0", ")">>
             [] Len(ids) = 1 -> str = <<"(", ToString(ids[1]), ")">>
             [] OTHER ->
                  /\ Len(str) = 2 * Len(ids) + 1
                  /\ str[1] = "(" /\ str[Len(str)] = ")"
                  /\ \A k \in 1..Len(ids) : str[2 * k] = ToString(ids[k])
                  /\ \A k \in 1..(Len(ids) - 1) : str[2 * k + 1] = ", "

ThreeWayRenderingWitness ==
    /\ indexOutcome = "ok"
    /\ Len(target_table_info.target_tables) = 2
    /\ Len(index_info.target_indexes) = 1
    /\ target_table_info.target_tables_str = <<"(", "2", ", ", "1", ")">>

\* C10: the bloat ratio computed for a factor row is None or a number in
\* [0, 100], and the computation does not fail.
BloatRatioInRange ==
    bloat_ratio # Pending =>
        \/ bloat_ratio.kind = "None"
        \/ /\ bloat_ratio.kind = "value"
           /\ 0 <= bloat_ratio.num
           /\ bloat_ratio.num <= 100 * bloat_ratio.den

\* C11: with is_na true the bloat ratio is None whatever the other factors and
\* the padding are, also for factors on which the arithmetic would fail.
NotApplicableIsNone ==
    (bloat_ratio # Pending /\ factors.is_na) => bloat_ratio = NoneValue

NotApplicableIsNoneWitness ==
    /\ factors.is_na
    /\ bloat_ratio = NoneValue
    /\ factors.tblpages = 0
    /\ factors.reltuples = -1
    /\ BloatArithmetic(factors, factors.padding_size) = ZeroDivisionError

\* C12: with is_na false, tuple_size = 4 + hdr + data + 2 ma - (hdr mod ma, or
\* ma when that is 0) - (ceil(data) mod ma, or ma when that is 0), where data
\* is tpl_data_size + padding, and est = ceil(reltuples / ((bs - page_hdr) *
\* fillfactor / (tuple_size * 100))); the ratio is 0 when tblpages - est <= 0
\* and 100 * (tblpages - est) / tblpages otherwise (no value when that divides
\* by a tblpages of 0).
BloatRatioFormula ==
    (bloat_ratio # Pending /\ ~factors.is_na) =>
        LET d == factors.tpl_data_size[2]
            \* data = n / d
            n == factors.tpl_data_size[1] + factors.padding_size * d
            ceil_data == CHOOSE c \in 0..(n + 1) : (c - 1) * d < n /\ n <= c * d
            hdr_corr == IF factors.tpl_hdr_size % factors.ma = 0 THEN factors.ma
                        ELSE factors.tpl_hdr_size % factors.ma
            data_corr == IF ceil_data % factors.ma = 0 THEN factors.ma
                         ELSE ceil_data % factors.ma
            \* tuple_size = size / d
            size == (4 + factors.tpl_hdr_size + 2 * factors.ma - hdr_corr - data_corr) * d + n
            \* reltuples / ((bs - page_hdr) * fillfactor / (tuple_size * 100)) = R / K
            R == factors.reltuples * size * 100
            K == (factors.bs - factors.page_hdr) * factors.fillfactor * d
            \* est >= tblpages  iff  R / K > tblpages - 1
            no_bloat == R > (factors.tblpages - 1) * K
        IN /\ K > 0
           /\ no_bloat => bloat_ratio = Value(0, 1)
           /\ (~no_bloat /\ factors.tblpages = 0) => bloat_ratio = ZeroDivisionError
           /\ (~no_bloat /\ factors.tblpages # 0) =>
                /\ bloat_ratio.kind = "value"
                /\ bloat_ratio.den = factors.tblpages
                /\ bloat_ratio.num % 100 = 0
                /\ LET est == factors.tblpages - (bloat_ratio.num \div 100)
                   IN (est - 1) * K < R /\ R <= est * K

BloatRatioFormulaWitness ==
    /\ ~factors.is_na
    /\ factors.padding_size = 3
    /\ factors.tpl_data_size = <<17, 2>>
    /\ factors.tblpages = 10
    /\ bloat_ratio.kind = "value"
    /\ bloat_ratio.num > 0
    /\ bloat_ratio.num < 100 * bloat_ratio.den

\* C13: the padding of a table does not change when a last column of width
\* zero, aligned as the column before it, is appended.
PaddingUnchangedByZeroWidthColumn ==
    padding # -1 => padding_appended = padding

\* C13, amended: appending such a column leaves the padding unchanged when
\* its alignment is 1, 2 or 4; with alignment 8 it adds 4 bytes exactly when
\* the columns end, after the final rounding to 4, at an odd multiple of 4.
PaddingChangedOnlyByEightAlignment ==
    padding # -1 =>
        LET n == Len(table_fields_info)
            width[k \in 0..n] == IF k = 0 THEN 0 ELSE width[k - 1] + table_fields_info[k][4]
            end == width[n] + padding
            last_alignment == ALIGNMENT_DICT[table_fields_info[n][3]]
        IN padding_appended =
             padding + (IF last_alignment = 8 /\ end % 8 = 4 THEN 4 ELSE 0)

PaddingChangedWitness ==
    /\ Len(table_fields_info) = 2
    /\ ALIGNMENT_DICT[table_fields_info[2][3]] = 8
    /\ table_fields_info[2][4] = 4
    /\ padding # -1
    /\ padding_appended = padding + 4

\* C14: the padding is the sum of the gaps of the walk that starts at the
\* first column's width, rounds the offset up to each later column's
\* alignment before adding its width, and at the end rounds up to 4; it is
\* never negative, and columns (4, 4), (1, 1), (8, 8) give 3.
PaddingIsReference ==
    padding # -1 =>
        LET n == Len(table_fields_info)
            up(x, a) == CHOOSE m \in x..(x + a - 1) : m % a = 0
            \* offset after column k
            offset[k \in 1..n] ==
                IF k = 1 THEN table_fields_info[1][4]
                ELSE up(offset[k - 1], ALIGNMENT_DICT[table_fields_info[k][3]])
                     + table_fields_info[k][4]
            gaps[k \in 1..n] ==
                IF k = 1 THEN 0
                ELSE gaps[k - 1]
                     + up(offset[k - 1], ALIGNMENT_DICT[table_fields_info[k][3]])
                     - offset[k - 1]
        IN /\ padding = gaps[n] + up(offset[n], 4) - offset[n]
           /\ padding >= 0
           /\ (/\ n = 3
               /\ \A k \in 1..3 :
                    <<ALIGNMENT_DICT[table_fields_info[k][3]], table_fields_info[k][4]>>
                        = << <<4, 4>>, <<1, 1>>, <<8, 8>> >>[k])
              => padding = 3

PaddingIsReferenceWitness ==
    /\ Len(table_fields_info) = 3
    /\ \A k \in 1..3 :
         <<table_fields_info[k][3], table_fields_info[k][4]>>
             = << <<"i", 4>>, <<"c", 1>>, <<"d", 8>> >>[k]
    /\ padding = 3

\* C15: _get_metrics returns one mapping per result row, in row order, whose
\* keys are exactly the names of the columns whose value in that row is not
\* NULL, each key holding a value of the row under that name.
OneMappingPerRowWithoutNulls ==
    rows_out # <<>> =>
        LET ret == query_result.ret
            col == query_result.col
            out == rows_out[1]
        IN /\ Len(out) = Len(ret)
           /\ \A i \in 1..Len(ret) :
                /\ DOMAIN out[i] = {col[k] : k \in {j \in 1..Len(col) : ret[i][j] # NULL}}
                /\ \A k \in 1..Len(col) :
                     (ret[i][k] # NULL /\ \A j \in 1..Len(col) : j # k => col[j] # col[k])
                        => out[i][col[k]] = ret[i][k].val
                /\ \A c \in DOMAIN out[i] :
                     \E k \in 1..Len(col) : col[k] = c /\ ret[i][k] = Cell(out[i][c])

OneMappingPerRowWithoutNullsWitness ==
    /\ rows_out # <<>>
    /\ query_result.col = <<"a", "b">>
    /\ query_result.ret = << <<NULL, Cell(0)>>, <<Cell(1), NULL>> >>
    /\ DOMAIN rows_out[1][1] = {"b"}
    /\ DOMAIN rows_out[1][2] = {"a"}

\* C16: in the tagged-measurement shape (collect_metrics_influx) a per-database
\* view yields one record per result row, in row order, tagged with the one
\* key datid holding the row's id, its fields the row's non-NULL columns other
\* than datid and stats_reset; the background-writer view yields one untagged
\* record, and when it answers with a number of rows other than one the cycle
\* fails with no record emitted and no reset issued.
TaggedRecordPerRow ==
    \A p \in Collectors :
        (shape[p] = "influx" /\ status[p] # "idle") =>
            LET c == last[p]
                ret == c.result.rows
                col == c.result.meta
                IsView(m) == m.name = (IF c.sql = DATABASE_SQL THEN "database_statistics"
                                       ELSE "conflicts")
                out == SelectSeq(metrics[p], IsView)
            IN /\ (c.sql \in {DATABASE_SQL, CONFLICTS_SQL} /\ ~c.result.raised) =>
                    /\ Len(out) = Len(ret)
                    /\ \A i \in 1..Len(ret) :
                         /\ DOMAIN out[i] = {"name", "tags", "data"}
                         /\ DOMAIN out[i].tags = {"datid"}
                         /\ \E k \in 1..Len(col) :
                              col[k] = "datid" /\ ret[i][k] = Cell(out[i].tags.datid)
                         /\ DOMAIN out[i].data =
                              {col[k] : k \in {j \in 1..Len(col) : ret[i][j] # NULL}}
                              \ {"datid", "stats_reset"}
                         /\ \A k \in 1..Len(col) :
                              col[k] \in DOMAIN out[i].data => ret[i][k] = Cell(out[i].data[col[k]])
               /\ \A k \in 1..Len(metrics[p]) :
                    metrics[p][k].name \in {"database_statistics", "conflicts"} =>
                        /\ DOMAIN metrics[p][k].tags = {"datid"}
                        /\ DOMAIN metrics[p][k].data \cap {"datid", "stats_reset"} = {}
               /\ (c.sql = BGWRITER_SQL /\ ~c.result.raised) =>
                    IF Len(ret) = 1
                    THEN /\ Len(metrics[p]) = 1
                         /\ DOMAIN metrics[p][1] = {"name", "data"}
                         /\ metrics[p][1].name = "bgwriter"
                    ELSE /\ status[p] = "failed"
                         /\ exc[p].type = "AssertionError"
                         /\ metrics[p] = <<>>
                         /\ issued[p] = <<BGWRITER_SQL>>
               /\ pc[p] > 1 =>
                    /\ Len(metrics[p]) >= 1
                    /\ \A k \in 1..Len(metrics[p]) :
                         metrics[p][k].name = "bgwriter" <=> k = 1
                    /\ "tags" \notin DOMAIN metrics[p][1]

TaggedRecordPerRowWitness ==
    /\ shape[1] = "influx"
    /\ status[1] = "returned"
    /\ Len(metrics[1]) >= 5
    /\ metrics[1][1].name = "bgwriter"
    /\ metrics[1][2].name = "database_statistics" /\ metrics[1][2].tags.datid = 1
    /\ DOMAIN metrics[1][2].data = {"xact_commit"}
    /\ metrics[1][3].name = "database_statistics" /\ metrics[1][3].tags.datid = 0
    /\ metrics[1][4].name = "conflicts" /\ metrics[1][5].name = "conflicts"

\* C17: in the influx and the pg shape the sessions record holds one mapping
\* with exactly the five keys the five scalar queries name, each value the
\* int() of the query's result: for the results 12.5, 3.2, 0.0, 4 and 1 the
\* mapping is 12, 3, 0, 4 and 1. The record is appended once, after the fifth
\* query.
SessionsRecordMergesFive ==
    \A p \in Collectors :
        (shape[p] \in {"influx", "pg"} /\ status[p] # "idle") =>
            LET IsSessions(m) == m.name = "sessions"
                out == SelectSeq(metrics[p], IsSessions)
                done == Cardinality({k \in 1..Len(issued[p]) :
                            /\ issued[p][k] \in {OLDEST_BACKEND_SQL, LONGEST_QUERY_SQL,
                                   LONGEST_XACT_SQL, NUM_SESSIONS_SQL, NUM_WAIT_SQL}
                            /\ ~(k = Len(issued[p])
                                 /\ (last[p].result.raised \/ exc[p].type = "TypeError"))})
            IN /\ Len(out) = (IF done = 5 THEN 1 ELSE 0)
               /\ Cardinality(DOMAIN metric[p]) = done
               /\ \A i \in 1..Len(out) :
                    /\ DOMAIN out[i].data =
                         {"oldest_backend_time_sec", "longest_query_time_sec",
                          "longest_transaction_time_sec", "num_sessions", "num_wait_sessions"}
                    /\ out[i].data.oldest_backend_time_sec = 12
                    /\ out[i].data.longest_query_time_sec = 3
                    /\ out[i].data.longest_transaction_time_sec = 0
                    /\ out[i].data.num_sessions = 4
                    /\ out[i].data.num_wait_sessions = 1

SessionsRecordMergesFiveWitness ==
    /\ shape[1] = "influx"
    /\ status[1] = "running"
    /\ Len(metrics[1]) > 0
    /\ Last(issued[1]) = NUM_WAIT_SQL
    /\ Last(metrics[1]).name = "sessions"
    /\ Cardinality(DOMAIN Last(metrics[1]).data) = 5
    /\ Last(metrics[1]).data.num_sessions = 4
    /\ Last(metrics[1]).data.num_wait_sessions = 1

\* C18: a collect_metrics cycle in which every query succeeds (and every global
\* view answers with its one row) returns, with an entry for every view of
\* the database, table and index categories and the statistics reset as its
\* last statement.
HierarchicalCycleReturnsTree ==
    \A p \in Collectors :
        (/\ shape[p] = "metrics"
         /\ status[p] \in {"returned", "failed"}
         /\ ~faulted[p] /\ ~installFailed[p]
         /\ exc[p].type # "AssertionError") =>
            /\ status[p] = "returned"
            /\ Last(issued[p]) = RESET_SQL
            /\ \A category \in DOMAIN PG_STAT_VIEWS_LOCAL :
                 \A i \in 1..Len(PG_STAT_VIEWS_LOCAL[category]) :
                    \E k \in 1..Len(metrics[p]) :
                       metrics[p][k].name = PG_STAT_VIEWS_LOCAL[category][i]

\* C19: _get_stat_statements issues its statements in the order check, install
\* (only when the check found the extension absent), read (only when the
\* extension was found present or the install succeeded), accumulator reset
\* (only right after the read succeeded), each at most once in a cycle; a
\* failed read leaves the cycle running with empty per-query statistics.
StatementsSourceOrder ==
    /\ [](\A p \in Collectors :
            /\ \A sql \in {check_module_sql, load_module_sql,
                           PG_STAT_STATEMENTS_EDA_SQL, STATEMENTS_RESET_SQL} :
                 Count(issued[p], sql) <= 1
            /\ (/\ Len(issued[p]) > 0
                /\ Last(issued[p]) = PG_STAT_STATEMENTS_EDA_SQL
                /\ last[p].result.raised) =>
                  /\ res[p] = <<>>
                  /\ \A k \in 1..Len(metrics[p]) :
                       metrics[p][k].name \in {"query_statistics", "pg_stat_statements"} =>
                          metrics[p][k].data = <<>>)
    /\ [][\A p \in Collectors :
            (Len(issued'[p]) = Len(issued[p]) + 1 /\ Len(issued[p]) > 0) =>
                /\ Last(issued'[p]) = load_module_sql =>
                     /\ Last(issued[p]) = check_module_sql
                     /\ last[p].sql = check_module_sql
                     /\ ~last[p].result.raised
                     /\ last[p].result.rows[1][1] # Cell(1)
                /\ Last(issued'[p]) = PG_STAT_STATEMENTS_EDA_SQL =>
                     \/ /\ Last(issued[p]) = check_module_sql
                        /\ last[p].sql = check_module_sql
                        /\ ~last[p].result.raised
                        /\ last[p].result.rows[1][1] = Cell(1)
                     \/ /\ Last(issued[p]) = load_module_sql
                        /\ ~installFailed[p]
                        /\ extInstalled
                /\ Last(issued'[p]) = STATEMENTS_RESET_SQL =>
                     /\ Last(issued[p]) = PG_STAT_STATEMENTS_EDA_SQL
                     /\ last[p].sql = PG_STAT_STATEMENTS_EDA_SQL
                     /\ ~last[p].result.raised
                /\ (Last(issued'[p]) = PG_STAT_STATEMENTS_EDA_SQL /\ last'[p].result.raised) =>
                     /\ status'[p] = "running"
                     /\ exc'[p] = NoExc
                     /\ Len(metrics'[p]) >= Len(metrics[p])
                /\ (Last(issued[p]) = load_module_sql /\ installFailed[p]) =>
                     Last(issued'[p]) \notin {PG_STAT_STATEMENTS_EDA_SQL, STATEMENTS_RESET_SQL}
         ]_vars

StatementsSourceOrderWitness ==
    /\ issued[1] # <<>>
    /\ Last(issued[1]) = STATEMENTS_RESET_SQL
    /\ load_module_sql \in Range(issued[1])
    /\ ~last[1].result.raised
    /\ extInstalled
    /\ acc = 0
    /\ acts > 0

\* C20: when collect_index_metrics returned, the index ranking was sent once,
\* followed by the three per-index statements and nothing else; the rows of
\* indexes_size are the (index id, size) pairs of the ranked indexes in the
\* order of target_indexes, which is the order of the ids in the rendered
\* list the per-index statements carry; with no index ranked the four keys
\* are still there, indexes_size with its two columns and no rows, the list
\* is "(0)" and nothing is raised.
IndexSizesFromRanking ==
    indexOutcome = "ok" =>
        LET ids == index_info.target_indexes
            first == CHOOSE k \in 1..Len(sent) :
                        sent[k].template = "TOP_N_LARGEST_INDEXES_SQL_TEMPLATE"
            sizes == data[DictGet(data, "indexes_size")][2]
            IsNumber(tok) == tok \notin {"(", ")", ",", ", ", ",)"}
            candidates == IndexCandidates(target_table_info.target_tables_str)
        IN /\ Cardinality({k \in 1..Len(sent) :
                    sent[k].template = "TOP_N_LARGEST_INDEXES_SQL_TEMPLATE"}) = 1
           /\ Len(sent) = first + Len(INDEX_STATS_SQLS)
           /\ \A k \in 1..Len(INDEX_STATS_SQLS) :
                /\ sent[first + k].template = INDEX_STATS_SQLS[k].template
                /\ sent[first + k].list = index_info.target_indexes_str
           /\ Len(ids) = Min(driver_conf.num_index_to_collect_stats, Cardinality(candidates))
           /\ Range(ids) \subseteq candidates
           /\ sizes.columns = <<"indexrelid", "index_size">>
           /\ sizes.rows = [k \in 1..Len(ids) |-> <<ids[k], IndexSize(ids[k])>>]
           /\ ids # <<>> =>
                SelectSeq(index_info.target_indexes_str, IsNumber)
                    = [k \in 1..Len(ids) |-> ToString(ids[k])]
           /\ ids = <<>> =>
                /\ index_info.target_indexes_str = <<"(", "0", ")">>
                /\ sizes.rows = <<>>
           /\ {INDEX_STATS_SQLS[k].field : k \in 1..Len(INDEX_STATS_SQLS)} \cup {"indexes_size"}
                 \subseteq DictKeys(data)
           /\ tpc = "returned"
           /\ texc = NoExc

IndexSizesFromRankingWitness ==
    /\ indexOutcome = "ok"
    /\ index_info.target_indexes = <<12, 11>>
    /\ data[DictGet(data, "indexes_size")][2].rows = << <<12, 16384>>, <<11, 8192>> >>

\* C21: the bloat rows are one <<relid, ratio>> per row of the factor query,
\* in its order, the ratio computed with the table's padding entry or with 0
\* when it has none; a table that only the padding helper knows gets no row;
\* and when the helper rows are sorted by table id there is one padding entry
\* per table in them, computed from that table's columns in input order.
OneBloatRowPerFactorRow ==
    ratios_out # <<>> =>
        LET raw == ratios_in.raw
            frows == ratios_in.factors
            pad == ratios_out[1].padding_size_dict
            rows == ratios_out[1].rows
            sorted == \A j, k \in 1..Len(raw) : j < k => raw[j][1] <= raw[k][1]
            ColumnsOf(t) == LET Mine(row) == row[1] = t IN SelectSeq(raw, Mine)
        IN /\ Len(rows) = Len(frows)
           /\ \A k \in 1..Len(frows) :
                /\ rows[k][1] = frows[k][1]
                /\ rows[k][2] =
                     _calculate_bloat_ratio_for_table(
                         frows[k][2],
                         IF frows[k][1] \in DictKeys(pad)
                         THEN pad[DictGet(pad, frows[k][1])][2] ELSE 0)
           /\ DictKeys(pad) = {raw[k][1] : k \in 1..Len(raw)}
           /\ Len(pad) = Cardinality(DictKeys(pad))
           /\ sorted =>
                \A k \in 1..Len(pad) :
                    pad[k][2] = _calculate_padding_size_for_table(ColumnsOf(pad[k][1]))

OneBloatRowPerFactorRowWitness ==
    /\ ratios_out # <<>>
    /\ ratios_in.raw = << <<2, "a", "c", 1>>, <<2, "a", "d", 1>> >>
    /\ [k \in 1..Len(ratios_in.factors) |-> ratios_in.factors[k][1]] = <<1>>
    /\ ratios_out[1].padding_size_dict = << <<2, 10>> >>
    /\ Len(ratios_out[1].rows) = 1
    /\ ratios_out[1].rows[1][1] = 1

\* C22: in a collect_metrics_pg cycle no statement reading pg_stat_statements
\* is issued after the cycle's pg_stat_statements_reset, and the performance
\* record of a cycle that returned is computed from at least the calls its
\* per-query statistics reported.
NoAccumulatorReadAfterItsReset ==
    \A p \in Collectors :
        shape[p] = "pg" =>
            /\ \A j, k \in 1..Len(issued[p]) :
                 (j < k /\ issued[p][j] = STATEMENTS_RESET_SQL) => ~ReadsStatements(issued[p][k])
            /\ status[p] = "returned" =>
                 \A i, j \in 1..Len(metrics[p]) :
                    (metrics[p][i].name = "query_statistics" /\ metrics[p][j].name = "performance") =>
                        \A r \in 1..Len(metrics[p][i].data) :
                            metrics[p][j].data[1].calls >= metrics[p][i].data[r].calls

\* C23: every increment of the resettable counter is reported by a cycle. For
\* the first cycle of a server: once it has returned and the counter stands at
\* zero, the value it reported is the number of increments so far, so none
\* was wiped unreported by its end-of-cycle reset.
NoIncrementLost ==
    \A p \in Collectors :
        (/\ shape[p] \in {"influx", "pg"}
         /\ cycles[p] = 1
         /\ status[p] = "returned"
         /\ ~overlapped[p]
         /\ stat = 0) =>
            report[p] = acts

\* C24: the only failures an influx or pg cycle ends with are the
\* PostgresCollectorException of a failed statement and the AssertionError of
\* the one-row assertion: a cycle whose statements all ran returns, whatever
\* rows they returned.
OnlyStatementFailuresAreFatal ==
    \A p \in Collectors :
        (shape[p] \in {"influx", "pg"} /\ status[p] = "failed") =>
            exc[p].type \in {"PostgresCollectorException", "AssertionError"}

\* C25: a cycle that ended with a failure has reset nothing on the server. For
\* the first cycle of a server that had the extension from the start (or
\* never): the counter and the accumulator still hold every increment.
AbortedCycleResetsNothing ==
    \A p \in Collectors :
        (/\ status[p] = "failed"
         /\ cycles[p] = 1
         /\ ~overlapped[p]
         /\ load_module_sql \notin Range(issued[p])) =>
            /\ stat = acts
            /\ acc = (IF extInstalled THEN acts ELSE 0)

====
